---- MODULE Spec2Model ----
(***************************************************************************)
(* A model of the benchmark harness of genomics-benchmarks:                *)
(*   - BenchmarkProfiler (core.py): the single-operation stopwatch and its *)
(*     append-only "<label>.psv" result log;                               *)
(*   - Benchmark.run_benchmark (core.py): the per-run control loop;        *)
(*   - convert_to_zarr / remove_directory_tree (data_service.py).          *)
(* The specifications share the variables:                                 *)
(*   Spec          run_benchmark drives the profiler, one statement of the *)
(*                 source per step (pc is the position in the code);       *)
(*   SpecFair      Spec, where a step that can be taken is taken;          *)
(*   SpecCalls     run_benchmark, or convert_to_zarr or _benchmark_pca     *)
(*                 called on its own;                                      *)
(*   SpecData      run_benchmark, or get_genotype_array or                 *)
(*                 get_genotype_array_concat called on its own;            *)
(*   SpecConfig    run_benchmark, or a conversion configuration built from *)
(*                 a configuration file and handed to convert_to_zarr;     *)
(*   SpecProfiler  a client calls the profiler's methods in any order;     *)
(*   SpecAny       run_benchmark or such a client.                         *)
(***************************************************************************)
EXTENDS Integers, Sequences, FiniteSets, TLC

\* ------------------------------------------------------------------ bounds
MaxRuns == 2    \* benchmark_number_runs ranges over 0..MaxRuns
MaxTime == 2    \* SpecProfiler: the wall clock ranges over 0..MaxTime
MaxCalls == 5   \* SpecProfiler: number of method calls made by the client
MaxSubsetSize == 4     \* pca_subset_size ranges over 1..MaxSubsetSize
MaxLdIterations == 2   \* pca_ld_pruning_number_iterations ranges over 0..MaxLdIterations
MaxAlleleCount == 3    \* allele counts of the rows the filter mask is computed for: 0..MaxAlleleCount
MaxCallsets == 3       \* get_genotype_array_concat is given 0..MaxCallsets call-sets

\* Python's None, for the numeric fields and for the operation label.
None == -1
NoLabel == "None"

VARIABLES
    \* --- BenchmarkProfiler and its BenchmarkResultsData (self.results)
    benchmark_running,  \* BenchmarkProfiler.benchmark_running
    results,            \* [run_number, operation_name, start_time, exec_time]
    \* --- the file "<benchmark_label>.psv"
    psv_isfile,         \* os.path.isfile(output_filename)
    psv_lines,          \* the rows of the file, in file order
    \* --- the wall clock read by time.time()
    now,
    \* --- configuration and file system seen by run_benchmark
    conf,               \* bench_conf / data_dirs, read-only after construction
    vcf_isfile,         \* os.path.isfile(<vcf_dir>/<benchmark_dataset>)
    zarr_dir_setup,     \* the store <zarr_dir_setup>/<benchmark_dataset>, or NoStore
    allele_counts,      \* the allele counts of the dataset's variants: gt.count_alleles()
    zarr_dir_benchmark, \* the working directory: NoDir, or the store it holds (or NoStore)
    \* --- Benchmark.run_benchmark
    pc,                 \* position in the code
    run_idx,            \* the loop variable run_number of run_benchmark
    benchmark_zarr_dir, \* Benchmark.benchmark_zarr_dir
    benchmark_zarr_file,\* Benchmark.benchmark_zarr_file
    locals,             \* local variables of the running functions
    exit_status,        \* None while running; 0 returned, 1 exit(1), 2 uncaught exception
    \* --- history (not read by any action of the program)
    events,             \* what run_benchmark did, in order: [run, ev]
    psv_base,           \* rows the file held before the session
    isfile_base,        \* whether the file existed before the session
    client              \* SpecProfiler: the client's calls and what it expects

profiler_vars == <<benchmark_running, results>>
psv_vars == <<psv_isfile, psv_lines>>
env_vars == <<conf, vcf_isfile, allele_counts>>
bench_vars == <<pc, run_idx, benchmark_zarr_dir, benchmark_zarr_file, locals, exit_status>>
hist_vars == <<events, psv_base, isfile_base>>
vars == <<profiler_vars, psv_vars, now, env_vars, zarr_dir_setup, zarr_dir_benchmark,
          bench_vars, hist_vars, client>>

\* ------------------------------------------------- BenchmarkResultsData
\* class attributes of BenchmarkResultsData: all None until assigned
EmptyResults ==
    [run_number |-> None, operation_name |-> NoLabel, start_time |-> None, exec_time |-> None]

\* The header row pandas writes for the columns of to_dict().
HeaderRow ==
    [kind |-> "header", timestamp |-> None, run_number |-> None,
     operation |-> "Operation", exec_time |-> None]

\* BenchmarkResultsData.to_dict / to_pandas: one data row; the "Log Timestamp"
\* column is the start instant, the others are copied.
to_dict(r) ==
    [kind |-> "data", timestamp |-> r.start_time, run_number |-> r.run_number,
     operation |-> r.operation_name, exec_time |-> r.exec_time]

IsHeader(row) == row.kind = "header"
DataRows(rows) == SelectSeq(rows, LAMBDA row : ~IsHeader(row))
HeaderRows(rows) == SelectSeq(rows, IsHeader)

\* ---------------------------------------------------- BenchmarkProfiler
\* ---- variants of the profiler's methods, each with one slip of the pen
\* the header is written on every write
_record_runtime_header_always(benchmark_results) ==
    /\ psv_lines' = psv_lines \o <<HeaderRow>> \o <<to_dict(benchmark_results)>>
    /\ psv_isfile' = TRUE

\* the file is opened in write mode instead of append mode
_record_runtime_write_mode(benchmark_results) ==
    LET psv_header == ~psv_isfile
    IN  /\ psv_lines' = (IF psv_header THEN <<HeaderRow>> ELSE <<>>)
                          \o <<to_dict(benchmark_results)>>
        /\ psv_isfile' = TRUE

\* _record_runtime: the header is written iff the file does not exist yet;
\* the file is opened in append mode, so earlier rows are kept.
_record_runtime(benchmark_results) ==
    LET psv_header == ~psv_isfile
    IN  /\ psv_lines' = psv_lines
                          \o (IF psv_header THEN <<HeaderRow>> ELSE <<>>)
                          \o <<to_dict(benchmark_results)>>
        /\ psv_isfile' = TRUE

\* the guard "if not self.benchmark_running" is missing
set_run_number_unguarded(run_number) ==
    /\ results' = [results EXCEPT !.run_number = run_number]
    /\ UNCHANGED <<benchmark_running, psv_vars>>

\* the guard is inverted: if self.benchmark_running
set_run_number_inverted(run_number) ==
    /\ IF benchmark_running
         THEN results' = [results EXCEPT !.run_number = run_number]
         ELSE UNCHANGED results
    /\ UNCHANGED <<benchmark_running, psv_isfile, psv_lines>>

set_run_number(run_number) ==
    /\ IF ~benchmark_running
         THEN results' = [results EXCEPT !.run_number = run_number]
         ELSE UNCHANGED results
    /\ UNCHANGED <<benchmark_running, psv_vars>>

\* the guard "if not self.benchmark_running" is missing
start_benchmark_unguarded(operation_name) ==
    /\ results' = [results EXCEPT !.operation_name = operation_name, !.start_time = now]
    /\ benchmark_running' = TRUE
    /\ UNCHANGED <<psv_isfile, psv_lines>>

start_benchmark(operation_name) ==
    /\ IF ~benchmark_running
         THEN /\ results' = [results EXCEPT !.operation_name = operation_name,
                                            !.start_time = now]
              /\ benchmark_running' = TRUE
         ELSE UNCHANGED <<results, benchmark_running>>
    /\ UNCHANGED psv_vars

\* a variant that opens the log file before it tests the flag
end_benchmark_opens_file ==
    IF benchmark_running
      THEN LET end_time == now
               done == [results EXCEPT !.exec_time = end_time - results.start_time]
           IN  /\ results' = done
               /\ _record_runtime(done)
               /\ benchmark_running' = FALSE
      ELSE /\ psv_isfile' = TRUE
           /\ UNCHANGED <<profiler_vars, psv_lines>>

\* a variant that resets the results after recording them
end_benchmark_resets_results ==
    IF benchmark_running
      THEN LET end_time == now
               done == [results EXCEPT !.exec_time = end_time - results.start_time]
           IN  /\ results' = [EmptyResults EXCEPT !.run_number = results.run_number]
               /\ _record_runtime(done)
               /\ benchmark_running' = FALSE
      ELSE UNCHANGED <<profiler_vars, psv_vars>>

\* the guard "if self.benchmark_running" is missing
end_benchmark_unguarded ==
    LET end_time == now
        done == [results EXCEPT !.exec_time = end_time - results.start_time]
    IN  /\ results' = done
        /\ psv_lines' = psv_lines
                          \o (IF ~psv_isfile THEN <<HeaderRow>> ELSE <<>>)
                          \o <<to_dict(done)>>
        /\ psv_isfile' = TRUE
        /\ benchmark_running' = FALSE

end_benchmark ==
    IF benchmark_running
      THEN LET end_time == now
               done == [results EXCEPT !.exec_time = end_time - results.start_time]
           IN  /\ results' = done
               /\ _record_runtime(done)
               /\ benchmark_running' = FALSE
      ELSE UNCHANGED <<profiler_vars, psv_vars>>

\* return self.results
get_benchmark_results == results

\* ------------------------------------------------ the log before a session
\* A file left by an earlier session of the same label: its header and one row.
OldRow ==
    [kind |-> "data", timestamp |-> 0, run_number |-> 1,
     operation |-> "Load Zarr Dataset", exec_time |-> 0]

InitPsv ==
    /\ psv_isfile \in BOOLEAN
    /\ psv_lines \in (IF psv_isfile THEN {<<>>, <<HeaderRow, OldRow>>} ELSE {<<>>})
    /\ psv_base = psv_lines
    /\ isfile_base = psv_isfile

InitProfiler ==
    /\ benchmark_running = FALSE
    /\ results = EmptyResults

\* ------------------------------------------------------------ file system
\* File names are sequences of characters, so that slicing is what the code does.
DatasetVcf == <<"d", ".", "v", "c", "f">>
DatasetZarr == <<"d">>

\* A store: the run whose conversion wrote it (0: written before the session)
\* and the alt_number it was laid out for.
NoStore == [writer |-> None, alt_number |-> None]
\* A directory that may hold one store under a name.
NoDir == [exists |-> FALSE, name |-> <<>>, store |-> NoStore]
EmptyDir == [exists |-> TRUE, name |-> <<>>, store |-> NoStore]
DirWith(name, store) == [exists |-> TRUE, name |-> name, store |-> store]

\* os.path.isdir(os.path.join(dir, file)): the directory itself when file is "",
\* else the store of that name in it.
isdir(dir, file) ==
    /\ dir.exists
    /\ (file = <<>> \/ (dir.name = file /\ dir.store # NoStore))

\* a variant with the test inverted: if not os.path.exists(path)
remove_directory_tree_inverted(dir) ==
    IF ~dir.exists THEN NoDir ELSE dir

\* remove_directory_tree: the directory and all it holds are gone.
remove_directory_tree(dir) ==
    IF dir.exists THEN NoDir ELSE dir

\* The local variables and parameters of the running functions.  caller: who
\* called the function the session started in; output_zarr_dir: the directory
\* of convert_to_zarr's output_zarr_path; ac .. gnu: the arrays of
\* _benchmark_pca, each a sequence with one entry per variant; ld_rounds: what
\* each round of _pca_ld_prune did.
\* Blosc.NOSHUFFLE, Blosc.SHUFFLE, Blosc.BITSHUFFLE, Blosc.AUTOSHUFFLE (numcodecs)
NOSHUFFLE == 0
SHUFFLE == 1
BITSHUFFLE == 2
AUTOSHUFFLE == -1

\* the class attributes of VCFtoZarrConfigurationRepresentation: its defaults
VCFtoZarrDefaults ==
    [enabled |-> FALSE, compressor |-> "Blosc", blosc_compression_algorithm |-> "zstd",
     blosc_compression_level |-> 1, blosc_shuffle_mode |-> AUTOSHUFFLE]

\* an option of a section of the configuration file: absent, or its text
NoOption(text) == [present |-> FALSE, text |-> text]
Option(text) == [present |-> TRUE, text |-> text]
\* runtime_config = None
NoRuntimeConfig ==
    [given |-> FALSE, section |-> FALSE,
     vcf_to_zarr |-> [enabled |-> NoOption(<<>>), compressor |-> NoOption(""),
                      blosc_compression_algorithm |-> NoOption(""),
                      blosc_compression_level |-> NoOption(<<>>),
                      blosc_shuffle_mode |-> NoOption(<<>>)]]

NoLocals ==
    [caller |-> "run_benchmark", benchmark_profiler |-> FALSE,
     output_zarr_dir |-> "zarr_dir_benchmark", alt_number |-> None, callset |-> NoStore,
     gt |-> NoLabel, step |-> 0, callsets |-> 0,
     runtime_config |-> NoRuntimeConfig, self |-> VCFtoZarrDefaults,
     ac |-> <<>>, flt |-> <<>>, gf |-> <<>>, gn |-> <<>>, vidx |-> <<>>, gnr |-> <<>>,
     gnu |-> <<>>, ld_rounds |-> <<>>]

\* the 'variants/numalt' column of the source file
VcfNumalt == <<1, 3, 2>>

\* a variant that takes the first entry for the largest
np_max_first(a) == a[1]

RECURSIVE np_max(_)
np_max(a) ==
    IF Len(a) = 1 THEN a[1]
    ELSE LET m == np_max(Tail(a)) IN IF a[1] > m THEN a[1] ELSE m

\* name[0:len(name) - 4]: truncate "*.vcf" from the input file name
truncate_vcf(name) ==
    IF Len(name) > 4 THEN SubSeq(name, 1, Len(name) - 4) ELSE <<>>

\* ------------------------------------------------------- run_benchmark
\* Steps of run_benchmark leave the client's record alone.
Goto(label) == pc' = label
Event(ev) == events' = Append(events, [run |-> run_idx, ev |-> ev])
\* the timed work itself takes one unit of wall-clock time
Work(ev) == now' = now + 1 /\ Event(ev)
UNCHANGED_env == UNCHANGED <<env_vars, zarr_dir_setup, psv_base, isfile_base, client>>
UNCHANGED_profiler == UNCHANGED <<profiler_vars, psv_vars>>

\* exit(1)
Exit1 == pc' = "exited" /\ exit_status' = 1
\* an exception nobody catches leaves run_benchmark
Raise == pc' = "raised" /\ UNCHANGED exit_status

\* if self.bench_conf is not None and self.data_dirs is not None
RunBenchmark ==
    /\ pc = "run_benchmark"
    /\ IF conf.present
         THEN Goto("for") /\ UNCHANGED exit_status
         ELSE Goto("returned") /\ exit_status' = 0
    /\ UNCHANGED <<run_idx, benchmark_zarr_dir, benchmark_zarr_file, locals>>
    /\ UNCHANGED <<now, zarr_dir_benchmark, events>>
    /\ UNCHANGED_profiler /\ UNCHANGED_env

\* a variant that runs once more: range(1, benchmark_number_runs + 2)
ForRunNumber_once_more ==
    /\ pc = "for"
    /\ IF run_idx <= conf.benchmark_number_runs
         THEN run_idx' = run_idx + 1 /\ Goto("remove_directory_tree") /\ UNCHANGED exit_status
         ELSE Goto("returned") /\ exit_status' = 0 /\ UNCHANGED run_idx
    /\ UNCHANGED <<benchmark_zarr_dir, benchmark_zarr_file, locals>>
    /\ UNCHANGED <<now, zarr_dir_benchmark, events>>
    /\ UNCHANGED_profiler /\ UNCHANGED_env

\* for run_number in range(1, benchmark_number_runs + 1)
ForRunNumber ==
    /\ pc = "for"
    /\ IF run_idx < conf.benchmark_number_runs
         THEN run_idx' = run_idx + 1 /\ Goto("remove_directory_tree") /\ UNCHANGED exit_status
         ELSE Goto("returned") /\ exit_status' = 0 /\ UNCHANGED run_idx
    /\ UNCHANGED <<benchmark_zarr_dir, benchmark_zarr_file, locals>>
    /\ UNCHANGED <<now, zarr_dir_benchmark, events>>
    /\ UNCHANGED_profiler /\ UNCHANGED_env

\* data_service.remove_directory_tree(self.data_dirs.zarr_dir_benchmark)
ClearBenchmarkDir ==
    /\ pc = "remove_directory_tree"
    /\ zarr_dir_benchmark' = remove_directory_tree(zarr_dir_benchmark)
    /\ Event("wipe")
    /\ Goto("set_run_number")
    /\ UNCHANGED <<run_idx, benchmark_zarr_dir, benchmark_zarr_file, locals, exit_status, now>>
    /\ UNCHANGED_profiler /\ UNCHANGED_env

\* self.benchmark_profiler.set_run_number(run_number)
UpdateRunNumber ==
    /\ pc = "set_run_number"
    /\ set_run_number(run_idx)
    /\ Event("set_run_number")
    /\ Goto("data_input")
    /\ UNCHANGED <<run_idx, benchmark_zarr_dir, benchmark_zarr_file, locals, exit_status, now>>
    /\ UNCHANGED zarr_dir_benchmark /\ UNCHANGED_env

\* a variant with the two modes exchanged
data_input_branch_exchanged(data_input) ==
    IF data_input = "zarr" THEN "_benchmark_convert_to_zarr"
    ELSE IF data_input = "vcf" THEN "use_setup"
    ELSE "invalid"

\* a variant whose last branch is a plain else: anything but "vcf" is "zarr"
data_input_branch_else_zarr(data_input) ==
    IF data_input = "vcf" THEN "_benchmark_convert_to_zarr" ELSE "use_setup"

\* Where the if/elif/else on benchmark_data_input goes.
data_input_branch(data_input) ==
    IF data_input = "vcf" THEN "_benchmark_convert_to_zarr"
    ELSE IF data_input = "zarr" THEN "use_setup"
    ELSE "invalid"

\* if self.bench_conf.benchmark_data_input == "vcf": ... elif ... == "zarr": ... else: exit(1)
DataInput ==
    /\ pc = "data_input"
    /\ LET branch == data_input_branch(conf.benchmark_data_input)
       IN  \/ /\ branch = "_benchmark_convert_to_zarr"
              /\ benchmark_zarr_dir' = "zarr_dir_benchmark"
              /\ Goto("_benchmark_convert_to_zarr")
              /\ UNCHANGED <<benchmark_zarr_file, exit_status>>
           \/ /\ branch = "use_setup"
              /\ benchmark_zarr_dir' = "zarr_dir_setup"
              /\ benchmark_zarr_file' = conf.benchmark_dataset
              /\ Goto("zarr_path")
              /\ UNCHANGED exit_status
           \/ /\ branch = "invalid"
              /\ Exit1
              /\ UNCHANGED <<benchmark_zarr_dir, benchmark_zarr_file>>
    /\ UNCHANGED <<run_idx, locals, now, zarr_dir_benchmark, events>>
    /\ UNCHANGED_profiler /\ UNCHANGED_env

\* _benchmark_convert_to_zarr, up to the call of convert_to_zarr
BenchmarkConvertToZarr ==
    /\ pc = "_benchmark_convert_to_zarr"
    /\ benchmark_zarr_dir' = "zarr_dir_benchmark"
    /\ IF vcf_isfile
         THEN /\ Goto("convert_to_zarr")
              /\ locals' = [locals EXCEPT !.benchmark_profiler = TRUE]
              /\ UNCHANGED exit_status
         ELSE Exit1 /\ UNCHANGED locals
    /\ UNCHANGED <<run_idx, benchmark_zarr_file, now, zarr_dir_benchmark, events>>
    /\ UNCHANGED_profiler /\ UNCHANGED_env

\* --------------------------------------------------- convert_to_zarr
\* Every step of convert_to_zarr leaves the orchestrator's fields alone.
UNCHANGED_self == UNCHANGED <<run_idx, benchmark_zarr_dir, benchmark_zarr_file, exit_status>>

\* if benchmark_profiler is not None: benchmark_profiler.start_benchmark(...)
ProfilerStart(at, operation_name, next) ==
    /\ pc = at
    /\ IF locals.benchmark_profiler
         THEN start_benchmark(operation_name)
         ELSE UNCHANGED_profiler
    /\ Goto(next)
    /\ UNCHANGED <<locals, now, zarr_dir_benchmark, events>>
    /\ UNCHANGED_self /\ UNCHANGED_env

\* if benchmark_profiler is not None: benchmark_profiler.end_benchmark()
ProfilerEnd(at, next) ==
    /\ pc = at
    /\ IF locals.benchmark_profiler
         THEN end_benchmark
         ELSE UNCHANGED_profiler
    /\ Goto(next)
    /\ UNCHANGED <<locals, now, zarr_dir_benchmark, events>>
    /\ UNCHANGED_self /\ UNCHANGED_env

\* if conversion_config is not None: ... if conversion_config.alt_number is None: ... else: ...
ConvertGetAltNumber ==
    /\ pc = "convert_to_zarr"
    /\ IF ~conf.vcf_to_zarr_config.present
         THEN Goto("convert_return") /\ UNCHANGED locals
         ELSE IF conf.vcf_to_zarr_config.alt_number = None
           THEN Goto("scan_begin") /\ UNCHANGED locals
           ELSE /\ locals' = [locals EXCEPT !.alt_number = conf.vcf_to_zarr_config.alt_number]
                /\ Goto("compressor")
    /\ Event("convert_to_zarr")
    /\ UNCHANGED <<now, zarr_dir_benchmark>>
    /\ UNCHANGED_self /\ UNCHANGED_profiler /\ UNCHANGED_env

ConvertScanBegin ==
    ProfilerStart("scan_begin", "Read VCF file into memory for alt number", "scan")

\* callset = allel.read_vcf(input_vcf_path, fields=['numalt'])
ConvertScan ==
    /\ pc = "scan"
    /\ Work("read_vcf")
    /\ Goto("scan_end")
    /\ UNCHANGED <<locals, zarr_dir_benchmark>>
    /\ UNCHANGED_self /\ UNCHANGED_profiler /\ UNCHANGED_env

ConvertScanEnd == ProfilerEnd("scan_end", "max_begin")

\* a variant that reuses the label of the stage before
ConvertMaxBegin_same_label ==
    ProfilerStart("max_begin", "Read VCF file into memory for alt number", "max")

ConvertMaxBegin == ProfilerStart("max_begin", "Determine maximum alt number", "max")

\* alt_number = np.max(numalt)
ConvertMax ==
    /\ pc = "max"
    /\ locals' = [locals EXCEPT !.alt_number = np_max(VcfNumalt)]
    /\ Work("np_max")
    /\ Goto("max_end")
    /\ UNCHANGED zarr_dir_benchmark
    /\ UNCHANGED_self /\ UNCHANGED_profiler /\ UNCHANGED_env

ConvertMaxEnd == ProfilerEnd("max_end", "compressor")

\* a variant that goes on with a default compressor instead of raising
ConvertCompressor_fallback ==
    /\ pc = "compressor"
    /\ Goto("vcf_to_zarr_begin") /\ UNCHANGED exit_status
    /\ UNCHANGED <<run_idx, benchmark_zarr_dir, benchmark_zarr_file>>
    /\ UNCHANGED <<locals, now, zarr_dir_benchmark, events>>
    /\ UNCHANGED_profiler /\ UNCHANGED_env

\* if conversion_config.compressor == "Blosc": ... else: raise ValueError
ConvertCompressor ==
    /\ pc = "compressor"
    /\ IF conf.vcf_to_zarr_config.compressor = "Blosc"
         THEN Goto("vcf_to_zarr_begin") /\ UNCHANGED exit_status
         ELSE Raise
    /\ UNCHANGED <<run_idx, benchmark_zarr_dir, benchmark_zarr_file>>
    /\ UNCHANGED <<locals, now, zarr_dir_benchmark, events>>
    /\ UNCHANGED_profiler /\ UNCHANGED_env

ConvertBegin == ProfilerStart("vcf_to_zarr_begin", "Convert VCF to Zarr", "vcf_to_zarr")

\* allel.vcf_to_zarr(input_vcf_path, output_zarr_path, alt_number=alt_number, overwrite=True, ...)
\* output_zarr_path is <zarr_dir_benchmark>/<benchmark_dataset without ".vcf">
ConvertVcfToZarr ==
    /\ pc = "vcf_to_zarr"
    /\ LET written == DirWith(truncate_vcf(conf.benchmark_dataset),
                              [writer |-> run_idx, alt_number |-> locals.alt_number])
       IN  IF locals.output_zarr_dir = "zarr_dir_benchmark"
             THEN zarr_dir_benchmark' = written /\ UNCHANGED zarr_dir_setup
             ELSE zarr_dir_setup' = written /\ UNCHANGED zarr_dir_benchmark
    /\ Work("vcf_to_zarr")
    /\ Goto("vcf_to_zarr_end")
    /\ UNCHANGED locals
    /\ UNCHANGED_self /\ UNCHANGED_profiler
    /\ UNCHANGED <<env_vars, psv_base, isfile_base, client>>

ConvertEnd == ProfilerEnd("vcf_to_zarr_end", "convert_return")

\* convert_to_zarr returns; back in _benchmark_convert_to_zarr:
\* self.benchmark_zarr_file = output_zarr_file
ConvertReturn ==
    /\ pc = "convert_return"
    /\ IF locals.caller = "run_benchmark"
         THEN /\ benchmark_zarr_file' = truncate_vcf(conf.benchmark_dataset)
              /\ Goto("zarr_path")
              /\ UNCHANGED exit_status
         ELSE /\ Goto("returned") /\ exit_status' = 0
              /\ UNCHANGED benchmark_zarr_file
    /\ UNCHANGED <<run_idx, benchmark_zarr_dir>>
    /\ UNCHANGED <<locals, now, zarr_dir_benchmark, events>>
    /\ UNCHANGED_profiler /\ UNCHANGED_env

\* ---------------------------------------- run_benchmark, after the mode
\* self.benchmark_profiler.start_benchmark(...) / end_benchmark() in Benchmark
BenchStart(at, operation_name, next) ==
    /\ pc = at
    /\ start_benchmark(operation_name)
    /\ Goto(next)
    /\ UNCHANGED <<locals, now, zarr_dir_benchmark, events>>
    /\ UNCHANGED_self /\ UNCHANGED_env

BenchEnd(at, next) ==
    /\ pc = at
    /\ end_benchmark
    /\ Goto(next)
    /\ UNCHANGED <<now, zarr_dir_benchmark, events>>
    /\ UNCHANGED_self /\ UNCHANGED_env

\* the directory benchmark_zarr_dir names
ZarrDir == IF benchmark_zarr_dir = "zarr_dir_benchmark" THEN zarr_dir_benchmark
           ELSE IF benchmark_zarr_dir = "zarr_dir_setup" THEN zarr_dir_setup
           ELSE NoDir

\* a variant that tests only benchmark_zarr_path != ""
zarr_path_ok_nonempty ==
    benchmark_zarr_dir # "" \/ benchmark_zarr_file # <<>>

\* if (benchmark_zarr_path != "") and (os.path.isdir(benchmark_zarr_path))
zarr_path_ok ==
    /\ (benchmark_zarr_dir # "" \/ benchmark_zarr_file # <<>>)
    /\ isdir(ZarrDir, benchmark_zarr_file)

ZarrPath ==
    /\ pc = "zarr_path"
    /\ IF zarr_path_ok
         THEN Goto("load_begin") /\ UNCHANGED exit_status
         ELSE Exit1
    /\ UNCHANGED <<run_idx, benchmark_zarr_dir, benchmark_zarr_file>>
    /\ UNCHANGED <<locals, now, zarr_dir_benchmark, events>>
    /\ UNCHANGED_profiler /\ UNCHANGED_env

\* a variant that goes on without creating the genotype array
LoadEnd_skips_genotype == BenchEnd("load_end", "if_aggregations") /\ UNCHANGED locals

\* _benchmark_load_zarr_dataset
LoadBegin == BenchStart("load_begin", "Load Zarr Dataset", "load") 

\* store = zarr.DirectoryStore(zarr_path); callset = zarr.Group(store=store, read_only=True)
Load ==
    /\ pc = "load"
    /\ locals' = [locals EXCEPT !.callset = ZarrDir.store]
    /\ Work("load")
    /\ Goto("load_end")
    /\ UNCHANGED zarr_dir_benchmark
    /\ UNCHANGED_self /\ UNCHANGED_profiler /\ UNCHANGED_env

LoadEnd == BenchEnd("load_end", "genotype_begin") /\ UNCHANGED locals

\* _benchmark_create_genotype_array
GenotypeBegin == BenchStart("genotype_begin", "Create Genotype Array", "genotype")

\* get_genotype_array: the array of the requested kind, None for any other kind
GenotypeArrayTypes == {"normal", "dask", "chunked"}
get_genotype_array(callset, genotype_array_type) ==
    IF genotype_array_type \in GenotypeArrayTypes THEN genotype_array_type ELSE NoLabel

\* gt = data_service.get_genotype_data(callset=callset, genotype_array_type=genotype_array_type)
get_genotype_data(callset, genotype_array_type) ==
    get_genotype_array(callset, genotype_array_type)

Genotype ==
    /\ pc = "genotype"
    /\ locals' = [locals EXCEPT !.gt = get_genotype_data(locals.callset, conf.genotype_array_type)]
    /\ Work("create_genotype_array")
    /\ Goto("genotype_end")
    /\ UNCHANGED zarr_dir_benchmark
    /\ UNCHANGED_self /\ UNCHANGED_profiler /\ UNCHANGED_env

\* a variant that goes on without end_benchmark
GenotypeEnd_not_called ==
    /\ pc = "genotype_end" /\ Goto("if_aggregations")
    /\ UNCHANGED <<locals, now, zarr_dir_benchmark, events>>
    /\ UNCHANGED_self /\ UNCHANGED_profiler /\ UNCHANGED_env

GenotypeEnd == BenchEnd("genotype_end", "if_aggregations") /\ UNCHANGED locals

\* get_genotype_array(callset, genotype_array_type) called by a client, or by
\* get_genotype_array_concat for a single call-set: it returns its result,
\* None included
GetGenotypeArray ==
    /\ pc = "get_genotype_array"
    /\ locals' = [locals EXCEPT !.gt = get_genotype_array(locals.callset, conf.genotype_array_type)]
    /\ Work("get_genotype_array")
    /\ Goto("returned") /\ exit_status' = 0
    /\ UNCHANGED <<run_idx, benchmark_zarr_dir, benchmark_zarr_file, zarr_dir_benchmark>>
    /\ UNCHANGED_profiler /\ UNCHANGED_env

\* get_genotype_array_concat(callsets, genotype_array_type) called by a
\* client: one call-set is handed to get_genotype_array; otherwise the arrays
\* are concatenated for the three kinds (concatenating none raises) and any
\* other kind raises ValueError
GetGenotypeArrayConcat ==
    /\ pc = "get_genotype_array_concat"
    /\ IF locals.callsets = 1
         THEN /\ Goto("get_genotype_array")
              /\ UNCHANGED <<locals, now, events, exit_status>>
         ELSE IF conf.genotype_array_type \in GenotypeArrayTypes /\ locals.callsets > 0
                THEN /\ locals' = [locals EXCEPT !.gt = conf.genotype_array_type]
                     /\ Work("concatenate")
                     /\ Goto("returned") /\ exit_status' = 0
                ELSE Raise /\ UNCHANGED <<locals, now, events>>
    /\ UNCHANGED <<run_idx, benchmark_zarr_dir, benchmark_zarr_file, zarr_dir_benchmark>>
    /\ UNCHANGED_profiler /\ UNCHANGED_env

NextGenotype == GetGenotypeArray \/ GetGenotypeArrayConcat

\* if self.bench_conf.benchmark_aggregations: self._benchmark_simple_aggregations(gt)
IfAggregations ==
    /\ pc = "if_aggregations"
    /\ IF conf.benchmark_aggregations
         THEN Goto("aggregation_begin") /\ locals' = [locals EXCEPT !.step = 1]
         ELSE Goto("if_pca") /\ UNCHANGED locals
    /\ UNCHANGED <<now, zarr_dir_benchmark, events>>
    /\ UNCHANGED_self /\ UNCHANGED_profiler /\ UNCHANGED_env

\* a variant that tests the wrong flag: if self.bench_conf.benchmark_aggregations
IfPca_wrong_flag ==
    /\ pc = "if_pca"
    /\ IF conf.benchmark_aggregations
         THEN Goto("pca_step") /\ locals' = [locals EXCEPT !.step = 1]
         ELSE Goto("for") /\ UNCHANGED locals
    /\ UNCHANGED <<now, zarr_dir_benchmark, events>>
    /\ UNCHANGED_self /\ UNCHANGED_profiler /\ UNCHANGED_env

\* if self.bench_conf.benchmark_pca: self._benchmark_pca(gt)
IfPca ==
    /\ pc = "if_pca"
    /\ IF conf.benchmark_pca
         THEN Goto("pca_step") /\ locals' = [locals EXCEPT !.step = 1]
         ELSE Goto("for") /\ UNCHANGED locals
    /\ UNCHANGED <<now, zarr_dir_benchmark, events>>
    /\ UNCHANGED_self /\ UNCHANGED_profiler /\ UNCHANGED_env

\* ------------------------------------- _benchmark_simple_aggregations
\* a variant with the second and third operation exchanged
Aggregations_exchanged ==
    << [name |-> "Allele Count (All Samples)", call |-> "count_alleles()"],
       [name |-> "Genotype Count: Homozygous per Variant", call |-> "count_hom(axis=1)"],
       [name |-> "Genotype Count: Heterozygous per Variant", call |-> "count_het(axis=1)"],
       [name |-> "Genotype Count: Heterozygous per Sample", call |-> "count_het(axis=0)"],
       [name |-> "Genotype Count: Homozygous per Sample", call |-> "count_hom(axis=0)"] >>

\* the five timed operations, in source order: label and the call on gt
Aggregations ==
    << [name |-> "Allele Count (All Samples)", call |-> "count_alleles()"],
       [name |-> "Genotype Count: Heterozygous per Variant", call |-> "count_het(axis=1)"],
       [name |-> "Genotype Count: Homozygous per Variant", call |-> "count_hom(axis=1)"],
       [name |-> "Genotype Count: Heterozygous per Sample", call |-> "count_het(axis=0)"],
       [name |-> "Genotype Count: Homozygous per Sample", call |-> "count_hom(axis=0)"] >>

\* a variant that never forces the deferred result
aggregation_calls_unforced(i, genotype_array_type) ==
    <<Aggregations[i].call>>

\* gt.<call>.compute() for a Dask array, gt.<call> otherwise
aggregation_calls(i, genotype_array_type) ==
    IF genotype_array_type = "dask"
      THEN <<Aggregations[i].call, "compute()">>
      ELSE <<Aggregations[i].call>>

AggregationBegin ==
    \E i \in 1..Len(Aggregations) :
        /\ locals.step = i
        /\ BenchStart("aggregation_begin", Aggregations[i].name, "aggregation")

\* the timed statement of one operation; a call on None raises
Aggregation ==
    /\ pc = "aggregation"
    /\ IF locals.gt = NoLabel
         THEN Raise /\ UNCHANGED <<now, events>>
         ELSE /\ now' = now + 1
              /\ LET calls == aggregation_calls(locals.step, conf.genotype_array_type)
                 IN  events' = events \o [k \in 1..Len(calls) |->
                                            [run |-> run_idx, ev |-> calls[k]]]
              /\ Goto("aggregation_end")
              /\ UNCHANGED exit_status
    /\ UNCHANGED <<run_idx, benchmark_zarr_dir, benchmark_zarr_file, locals, zarr_dir_benchmark>>
    /\ UNCHANGED_profiler /\ UNCHANGED_env

AggregationEnd ==
    /\ IF locals.step < Len(Aggregations)
         THEN BenchEnd("aggregation_end", "aggregation_begin")
         ELSE BenchEnd("aggregation_end", "if_pca")
    /\ locals' = [locals EXCEPT !.step = IF @ < Len(Aggregations) THEN @ + 1 ELSE 0]

\* ------------------------------------------------- arrays of variants
\* An allele-count matrix is a sequence of rows, one per variant, each the
\* counts of alleles 0, 1, 2.  The genotype data and the matrices derived from
\* it are sequences of variant identifiers 0 .. V-1 in file order.
\* datasets of two diploid samples:
AlleleCountsMixed == << <<2, 2, 0>>, <<3, 1, 0>>, <<2, 2, 0>> >>
AlleleCountsNoneKept == << <<4, 0, 0>>, <<3, 1, 0>>, <<2, 1, 1>> >>
AlleleCountsSingle == << <<2, 2, 0>> >>
Datasets == {AlleleCountsMixed, AlleleCountsNoneKept, AlleleCountsSingle}

\* the variants of the genotype array gt
Variants == [v \in 1..Len(allele_counts) |-> v - 1]

\* ac.max_allele(): the highest allele index with a non-zero count, -1 if none
max_allele(row) ==
    LET nz == {i \in 1..Len(row) : row[i] > 0}
    IN  IF nz = {} THEN -1 ELSE (CHOOSE i \in nz : \A j \in nz : j <= i) - 1

\* a variant that keeps singletons: min(axis=1) > 0
filter_mask_keeps_singletons(ac) ==
    [v \in 1..Len(ac) |->
        /\ max_allele(ac[v]) = 1
        /\ (IF ac[v][1] < ac[v][2] THEN ac[v][1] ELSE ac[v][2]) > 0]

\* flt = (ac.max_allele() == 1) & (ac[:, :2].min(axis=1) > 1)
filter_mask(ac) ==
    [v \in 1..Len(ac) |->
        /\ max_allele(ac[v]) = 1
        /\ (IF ac[v][1] < ac[v][2] THEN ac[v][1] ELSE ac[v][2]) > 1]

\* np.count_nonzero(mask)
count_nonzero(mask) == Cardinality({i \in 1..Len(mask) : mask[i]})

\* a.compress(mask, axis=0): the rows whose mask entry is true, in order
RECURSIVE compress(_, _)
compress(rows, mask) ==
    IF rows = <<>> THEN <<>>
    ELSE (IF mask[1] THEN <<rows[1]>> ELSE <<>>) \o compress(Tail(rows), Tail(mask))

\* a variant that compresses whatever the mask holds
apply_filter_unguarded(gt, flt) == compress(gt, flt)

\* if flt_count > 0: gf = gt.compress(flt, axis=0) else: gf = gt
apply_filter(gt, flt) ==
    IF count_nonzero(flt) > 0 THEN compress(gt, flt) ELSE gt

\* np.random.choice(a, size, replace=False): size distinct values of range(a), in any order
choice(a, size) ==
    {p \in [1..size -> 0..(a - 1)] : \A i, j \in 1..size : i # j => p[i] # p[j]}

\* a variant that leaves the indices in the order they were drawn
sort_skipped(a) == a

\* vidx.sort(): ascending
RECURSIVE sort(_)
sort(a) ==
    IF a = <<>> THEN <<>>
    ELSE LET m == CHOOSE i \in 1..Len(a) : \A j \in 1..Len(a) : a[i] <= a[j]
         IN  <<a[m]>> \o sort([k \in 1..(Len(a) - 1) |-> IF k < m THEN a[k] ELSE a[k + 1]])

\* gn.take(vidx, axis=0)
take(rows, vidx) == [k \in 1..Len(vidx) |-> rows[vidx[k] + 1]]

\* n = min(gn.shape[0], pca_subset_size); vidx = np.random.choice(gn.shape[0], n,
\* replace=False); vidx.sort(); gnr = gn.take(vidx, axis=0): the possible (vidx, gnr)
subsample(gn, pca_subset_size) ==
    LET n == IF Len(gn) < pca_subset_size THEN Len(gn) ELSE pca_subset_size
    IN  { [vidx |-> sort(p), gnr |-> take(gn, sort(p))] : p \in choice(Len(gn), n) }

\* allel.locate_unlinked(gn, ...): a boolean mask over the variants of gn; which
\* variants are unlinked depends on the genotypes, so any mask may come back
locate_unlinked(gn) == [1..Len(gn) -> BOOLEAN]

\* a variant whose return stands inside the loop: at most one round
_pca_ld_prune_returns_early(gn, n_iter) ==
    IF n_iter = 0 THEN {<<>>}
    ELSE { <<[loc_unlinked |-> m, gn |-> compress(gn, m)]>> : m \in locate_unlinked(gn) }

\* _pca_ld_prune: n_iter rounds, each compressing gn by the round's mask; the
\* possible histories, one entry [loc_unlinked, gn] per round
RECURSIVE _pca_ld_prune(_, _)
_pca_ld_prune(gn, n_iter) ==
    IF n_iter = 0 THEN {<<>>}
    ELSE UNION { { <<[loc_unlinked |-> m, gn |-> compress(gn, m)]>> \o t :
                     t \in _pca_ld_prune(compress(gn, m), n_iter - 1) } :
                 m \in locate_unlinked(gn) }

\* ------------------------------------------------------ _benchmark_pca
\* a variant formatting the scaler as it is, None included
scaler_name_unchecked(scaler) == scaler

\* 'PCA: Run ... PCA analysis (scaler: {})'.format(scaler if scaler is not None else 'none')
scaler_name(scaler) == IF scaler # NoLabel THEN scaler ELSE "none"

\* The statements of _benchmark_pca in source order.  timed: wrapped in
\* start_benchmark/end_benchmark; ld: the statement under
\* "if pca_ld_enabled: if genotype_array_type != GENOTYPE_ARRAY_DASK".
PcaSteps ==
    << [name |-> "PCA: Count alleles", call |-> "count_alleles()[:]", timed |-> TRUE, ld |-> FALSE],
       [name |-> "PCA: Count multiallelic SNPs", call |-> "count_nonzero(max_allele() > 1)",
        timed |-> TRUE, ld |-> FALSE],
       [name |-> "PCA: Count biallelic singletons",
        call |-> "count_nonzero((max_allele() == 1) & is_singleton(1))", timed |-> TRUE, ld |-> FALSE],
       [name |-> NoLabel, call |-> "flt", timed |-> FALSE, ld |-> FALSE],
       [name |-> "PCA: Remove singletons and multiallelic SNPs", call |-> "gf",
        timed |-> TRUE, ld |-> FALSE],
       [name |-> "PCA: Transform genotype data for PCA", call |-> "to_n_alt()",
        timed |-> TRUE, ld |-> FALSE],
       [name |-> NoLabel, call |-> "random.choice; sort; take", timed |-> FALSE, ld |-> FALSE],
       [name |-> "PCA: Apply LD pruning", call |-> "_pca_ld_prune", timed |-> TRUE, ld |-> TRUE],
       [name |-> "PCA: Move data set to memory", call |-> "gnu[:]", timed |-> TRUE, ld |-> FALSE],
       [name |-> "PCA: Run conventional PCA analysis (scaler: "
                   \o scaler_name(conf.pca_data_scaler) \o ")",
        call |-> "allel.pca", timed |-> TRUE, ld |-> FALSE],
       [name |-> "PCA: Run randomized PCA analysis (scaler: "
                   \o scaler_name(conf.pca_data_scaler) \o ")",
        call |-> "allel.randomized_pca", timed |-> TRUE, ld |-> FALSE] >>

\* a variant without the test of the array kind
ld_prune_applies_any_kind == conf.pca_ld_enabled

\* if self.bench_conf.pca_ld_enabled: if genotype_array_type != GENOTYPE_ARRAY_DASK
ld_prune_applies == conf.pca_ld_enabled /\ conf.genotype_array_type # "dask"

PcaStepApplies(i) == PcaSteps[i].ld => ld_prune_applies

\* what the statement of step i does, as it is logged in events
pca_call(i, l) ==
    IF PcaSteps[i].call = "gf"
      THEN (IF count_nonzero(l.flt) > 0 THEN "compress(flt)" ELSE "gf = gt")
      ELSE PcaSteps[i].call

\* the local variables after the statement of step i, for each possible outcome
pca_statement(i, l) ==
    CASE PcaSteps[i].call = "count_alleles()[:]" -> {[l EXCEPT !.ac = allele_counts]}
      [] PcaSteps[i].call = "flt" -> {[l EXCEPT !.flt = filter_mask(l.ac)]}
      [] PcaSteps[i].call = "gf" -> {[l EXCEPT !.gf = apply_filter(Variants, l.flt)]}
      [] PcaSteps[i].call = "to_n_alt()" -> {[l EXCEPT !.gn = l.gf]}
      [] PcaSteps[i].call = "random.choice; sort; take" ->
            {[l EXCEPT !.vidx = c.vidx, !.gnr = c.gnr] :
                c \in subsample(l.gn, conf.pca_subset_size)}
      [] PcaSteps[i].call = "_pca_ld_prune" ->
            {[l EXCEPT !.ld_rounds = t,
                       !.gnu = IF t = <<>> THEN l.gnr ELSE t[Len(t)].gn] :
                t \in _pca_ld_prune(l.gnr, conf.pca_ld_pruning_number_iterations)}
      [] OTHER -> {l}

PcaBegin ==
    \E i \in 1..Len(PcaSteps) :
        /\ locals.step = i
        /\ PcaSteps[i].timed /\ PcaStepApplies(i)
        /\ BenchStart("pca_step", PcaSteps[i].name, "pca")

\* the timed statement; gt.count_alleles() on None raises
Pca ==
    /\ pc = "pca"
    /\ IF locals.gt = NoLabel
         THEN Raise /\ UNCHANGED <<now, events, locals>>
         ELSE /\ Work(pca_call(locals.step, locals))
              /\ locals' \in pca_statement(locals.step, locals)
              /\ Goto("pca_end") /\ UNCHANGED exit_status
    /\ UNCHANGED <<run_idx, benchmark_zarr_dir, benchmark_zarr_file, zarr_dir_benchmark>>
    /\ UNCHANGED_profiler /\ UNCHANGED_env

PcaEnd ==
    /\ BenchEnd("pca_end", "pca_step")
    /\ locals' = [locals EXCEPT !.step = @ + 1]

\* a statement outside any start_benchmark/end_benchmark pair
PcaUntimed ==
    /\ pc = "pca_step"
    /\ locals.step \in 1..Len(PcaSteps)
    /\ ~PcaSteps[locals.step].timed
    /\ Work(pca_call(locals.step, locals))
    /\ locals' \in {[l EXCEPT !.step = @ + 1] : l \in pca_statement(locals.step, locals)}
    /\ UNCHANGED <<pc, zarr_dir_benchmark>>
    /\ UNCHANGED_self /\ UNCHANGED_profiler /\ UNCHANGED_env

\* LD pruning disabled, or not supported by Dask arrays: gnu = gnr
PcaSkipLd ==
    /\ pc = "pca_step"
    /\ locals.step \in 1..Len(PcaSteps)
    /\ ~PcaStepApplies(locals.step)
    /\ locals' = [locals EXCEPT !.step = @ + 1, !.gnu = locals.gnr]
    /\ UNCHANGED <<pc, now, zarr_dir_benchmark, events>>
    /\ UNCHANGED_self /\ UNCHANGED_profiler /\ UNCHANGED_env

\* _benchmark_pca returns and its local variables are gone; in run_benchmark
\* this is the end of the loop body
PcaReturn ==
    /\ pc = "pca_step"
    /\ locals.step > Len(PcaSteps)
    /\ locals' = [locals EXCEPT !.step = 0, !.ac = <<>>, !.flt = <<>>, !.gf = <<>>,
                                !.gn = <<>>, !.vidx = <<>>, !.gnr = <<>>, !.gnu = <<>>,
                                !.ld_rounds = <<>>]
    /\ IF locals.caller = "run_benchmark"
         THEN Goto("for") /\ UNCHANGED exit_status
         ELSE Goto("returned") /\ exit_status' = 0
    /\ UNCHANGED <<run_idx, benchmark_zarr_dir, benchmark_zarr_file>>
    /\ UNCHANGED <<now, zarr_dir_benchmark, events>>
    /\ UNCHANGED_profiler /\ UNCHANGED_env

\* ------------------------------------------------------- the session
DataInputs == {"vcf", "zarr", "csv"}
Compressors == {"Blosc", "Gzip"}
ConfiguredAltNumber == 2

\* the store a setup-mode conversion left under <zarr_dir_setup>/<benchmark_dataset>
SetupStore == [writer |-> 0, alt_number |-> np_max(VcfNumalt)]
\* a store left in the working directory by an earlier session
StaleStore == [writer |-> 0, alt_number |-> np_max(VcfNumalt)]

\* benchmark_dataset names the source file in "vcf" mode, the store otherwise
DatasetFor(data_input) == IF data_input = "vcf" THEN DatasetVcf ELSE DatasetZarr

NoConf ==
    [present |-> FALSE, benchmark_number_runs |-> 0, benchmark_data_input |-> "vcf",
     benchmark_dataset |-> DatasetVcf, benchmark_aggregations |-> FALSE,
     benchmark_pca |-> FALSE, genotype_array_type |-> "dask", pca_ld_enabled |-> FALSE,
     pca_data_scaler |-> NoLabel, pca_subset_size |-> MaxSubsetSize,
     pca_ld_pruning_number_iterations |-> 1,
     vcf_to_zarr_config |-> [present |-> TRUE, alt_number |-> None, compressor |-> "Blosc"]]

Configs ==
    { [present |-> TRUE, benchmark_number_runs |-> n, benchmark_data_input |-> d,
       benchmark_dataset |-> DatasetFor(d), benchmark_aggregations |-> a,
       benchmark_pca |-> p, genotype_array_type |-> g, pca_ld_enabled |-> l,
       pca_data_scaler |-> s, pca_subset_size |-> MaxSubsetSize,
       pca_ld_pruning_number_iterations |-> 1,
       vcf_to_zarr_config |-> [present |-> c[1], alt_number |-> c[2], compressor |-> c[3]]] :
        n \in 0..MaxRuns, d \in DataInputs, a \in BOOLEAN, p \in BOOLEAN,
        g \in GenotypeArrayTypes \cup {"other"}, l \in BOOLEAN,
        s \in {NoLabel, "standard"},
        c \in BOOLEAN \X {None, ConfiguredAltNumber} \X Compressors }

\* ------------------------------------------------------------ the client
\* SpecProfiler: a client calls start_benchmark, end_benchmark and
\* set_run_number in any order while the clock advances.  `client` keeps what
\* the caller itself knows: the last call, the state it was made in, whether a
\* begin is pending (a begin with no end after it), the label and instant of the
\* first pending begin (and of a second one made before the end), whether its
\* last end closed a pair, and how many begin/end pairs it has completed.
ClientLabels == {"op A", "op B"}
ClientRuns == {1, 2}

InitClient ==
    [calls |-> 0, op |-> "none", arg |-> NoLabel, run_arg |-> None, pre_running |-> FALSE,
     pre_results |-> EmptyResults, pre_lines |-> psv_lines, pre_isfile |-> psv_isfile,
     pending |-> FALSE, first_label |-> NoLabel, first_begin |-> None,
     second_label |-> NoLabel, second_begin |-> None,
     paired |-> FALSE, pairs |-> 0, elapsed |-> None]

Called(op, arg) ==
    [client EXCEPT !.calls = @ + 1, !.op = op, !.arg = arg,
                   !.pre_running = benchmark_running, !.pre_results = results,
                   !.pre_lines = psv_lines, !.pre_isfile = psv_isfile]

bench_idle ==
    /\ pc = "client" /\ run_idx = 0 /\ exit_status = None
    /\ benchmark_zarr_dir = "" /\ benchmark_zarr_file = <<>>
    /\ locals = NoLocals
    /\ events = <<>>

UNCHANGED_bench ==
    UNCHANGED <<env_vars, zarr_dir_setup, zarr_dir_benchmark, bench_vars, hist_vars>>

ClientStart(label) ==
    /\ pc = "client" /\ client.calls < MaxCalls
    /\ start_benchmark(label)
    /\ client' = IF client.pending
                   THEN [Called("start_benchmark", label) EXCEPT
                            !.second_label = label, !.second_begin = now]
                   ELSE [Called("start_benchmark", label) EXCEPT
                            !.pending = TRUE, !.first_label = label, !.first_begin = now,
                            !.second_label = NoLabel, !.second_begin = None]
    /\ UNCHANGED now /\ UNCHANGED_bench

ClientEnd ==
    /\ pc = "client" /\ client.calls < MaxCalls
    /\ end_benchmark
    /\ client' = IF client.pending
                   THEN [Called("end_benchmark", NoLabel) EXCEPT
                            !.pending = FALSE, !.paired = TRUE, !.pairs = @ + 1,
                            !.elapsed = now - client.first_begin]
                   ELSE [Called("end_benchmark", NoLabel) EXCEPT !.paired = FALSE]
    /\ UNCHANGED now /\ UNCHANGED_bench

ClientSetRunNumber(n) ==
    /\ pc = "client" /\ client.calls < MaxCalls
    /\ set_run_number(n)
    /\ client' = [Called("set_run_number", NoLabel) EXCEPT !.run_arg = n]
    /\ UNCHANGED now /\ UNCHANGED_bench

\* time passes between two calls
Tick ==
    /\ pc = "client" /\ now < MaxTime
    /\ now' = now + 1
    /\ UNCHANGED <<profiler_vars, psv_vars, client>> /\ UNCHANGED_bench

InitProfilerSession ==
    /\ InitProfiler /\ InitPsv
    /\ now = 0
    /\ conf = NoConf
    /\ vcf_isfile = FALSE /\ zarr_dir_setup = NoDir /\ zarr_dir_benchmark = NoDir
    /\ allele_counts = AlleleCountsMixed
    /\ bench_idle
    /\ client = InitClient

NextProfiler ==
    \/ \E label \in ClientLabels : ClientStart(label)
    \/ ClientEnd
    \/ \E n \in ClientRuns : ClientSetRunNumber(n)
    \/ Tick

SpecProfiler == InitProfilerSession /\ [][NextProfiler]_vars

\* ------------------------------------------------ run_benchmark's session
\* Whether this session gets as far as opening the store.
ReachesLoad(c, vcf, setup) ==
    /\ c.present /\ c.benchmark_number_runs > 0
    /\ \/ c.benchmark_data_input = "zarr" /\ setup.store # NoStore
       \/ /\ c.benchmark_data_input = "vcf" /\ vcf
          /\ c.vcf_to_zarr_config.present /\ c.vcf_to_zarr_config.compressor = "Blosc"

\* A setting or file that no statement of the session reads is held at one
\* value (the class default, the file present), so that sessions that differ
\* only in what they never look at are explored once.
DefaultConversion == [present |-> TRUE, alt_number |-> None, compressor |-> "Blosc"]
HeldAtDefault(c, vcf, setup, bench) ==
    LET runs == c.present /\ c.benchmark_number_runs > 0
        cv == c.vcf_to_zarr_config
    IN  /\ ~runs => bench = NoDir
        /\ (~runs \/ c.benchmark_data_input # "vcf") => vcf
        /\ (~runs \/ c.benchmark_data_input # "vcf" \/ ~vcf) => cv = DefaultConversion
        /\ ~cv.present => cv = [DefaultConversion EXCEPT !.present = FALSE]
        /\ (~runs \/ c.benchmark_data_input # "zarr") => setup.store # NoStore
        /\ ~ReachesLoad(c, vcf, setup) =>
              /\ ~c.benchmark_aggregations /\ ~c.benchmark_pca
              /\ c.genotype_array_type = "dask"
        /\ ~c.benchmark_pca => ~c.pca_ld_enabled /\ c.pca_data_scaler = NoLabel

Init ==
    /\ InitProfiler /\ InitPsv
    /\ now = 0
    /\ conf \in Configs \cup {NoConf}
    /\ vcf_isfile \in BOOLEAN
    /\ zarr_dir_setup \in {EmptyDir, DirWith(DatasetZarr, SetupStore)}
    /\ zarr_dir_benchmark \in {NoDir, DirWith(DatasetZarr, StaleStore)}
    /\ allele_counts = AlleleCountsMixed
    /\ HeldAtDefault(conf, vcf_isfile, zarr_dir_setup, zarr_dir_benchmark)
    /\ pc = "run_benchmark" /\ run_idx = 0 /\ exit_status = None
    /\ benchmark_zarr_dir = "" /\ benchmark_zarr_file = <<>>
    /\ locals = NoLocals
    /\ events = <<>>
    /\ client = InitClient

Next ==
    \/ RunBenchmark \/ ForRunNumber \/ ClearBenchmarkDir \/ UpdateRunNumber \/ DataInput
    \/ BenchmarkConvertToZarr \/ ConvertGetAltNumber
    \/ ConvertScanBegin \/ ConvertScan \/ ConvertScanEnd
    \/ ConvertMaxBegin \/ ConvertMax \/ ConvertMaxEnd
    \/ ConvertCompressor \/ ConvertBegin \/ ConvertVcfToZarr \/ ConvertEnd \/ ConvertReturn
    \/ ZarrPath \/ LoadBegin \/ Load \/ LoadEnd
    \/ GenotypeBegin \/ Genotype \/ GenotypeEnd
    \/ IfAggregations \/ AggregationBegin \/ Aggregation \/ AggregationEnd
    \/ IfPca \/ PcaBegin \/ Pca \/ PcaEnd \/ PcaUntimed \/ PcaSkipLd \/ PcaReturn

Spec == Init /\ [][Next]_vars

\* ------------------------------------------- calls from other callers
\* convert_to_zarr called on its own, as setup_vcf_to_zarr does for every
\* "*.vcf" file of the input directory (without a profiler) or as any other
\* caller may (with one): the output goes to <zarr_dir_setup>/<name without ".vcf">.
ConversionConfigs ==
    { [present |-> c[1], alt_number |-> c[2], compressor |-> c[3]] :
        c \in BOOLEAN \X {None, ConfiguredAltNumber} \X Compressors }

InitConvert ==
    /\ InitProfiler /\ InitPsv
    /\ now = 0
    /\ \E c \in ConversionConfigs :
          /\ ~c.present => c = [DefaultConversion EXCEPT !.present = FALSE]
          /\ conf = [NoConf EXCEPT !.vcf_to_zarr_config = c]
    /\ vcf_isfile = TRUE
    /\ zarr_dir_setup \in {EmptyDir, DirWith(DatasetZarr, SetupStore)}
    /\ zarr_dir_benchmark = NoDir
    /\ allele_counts = AlleleCountsMixed
    /\ pc = "convert_to_zarr" /\ run_idx = 0 /\ exit_status = None
    /\ benchmark_zarr_dir = "" /\ benchmark_zarr_file = <<>>
    /\ \E b \in BOOLEAN :
          locals = [NoLocals EXCEPT !.caller = "client", !.benchmark_profiler = b,
                                    !.output_zarr_dir = "zarr_dir_setup"]
    /\ events = <<>>
    /\ client = InitClient

\* _benchmark_pca(gt) called on its own with a genotype array of one of the
\* three kinds, on each of the datasets.  The number of pruning rounds is held
\* at one value where the call never reads it.
InitPca ==
    /\ InitProfiler /\ InitPsv
    /\ now = 0
    /\ \E g \in GenotypeArrayTypes, l \in BOOLEAN, size \in 1..MaxSubsetSize,
          n_iter \in 0..MaxLdIterations :
          /\ ~(l /\ g # "dask") => n_iter = 1
          /\ conf = [NoConf EXCEPT !.present = TRUE, !.benchmark_pca = TRUE,
                                   !.genotype_array_type = g, !.pca_ld_enabled = l,
                                   !.pca_subset_size = size,
                                   !.pca_ld_pruning_number_iterations = n_iter]
          /\ locals = [NoLocals EXCEPT !.caller = "client", !.gt = g, !.step = 1]
    /\ vcf_isfile = TRUE
    /\ zarr_dir_setup = EmptyDir /\ zarr_dir_benchmark = NoDir
    /\ allele_counts \in Datasets
    /\ pc = "pca_step" /\ run_idx = 0 /\ exit_status = None
    /\ benchmark_zarr_dir = "" /\ benchmark_zarr_file = <<>>
    /\ events = <<>>
    /\ client = InitClient

\* run_benchmark, or one of its stages called on its own.
SpecCalls == (Init \/ InitConvert \/ InitPca) /\ [][Next]_vars

\* run_benchmark is one thread of control and every statement returns: a step
\* that can be taken is taken.
SpecFair == Spec /\ WF_vars(Next)

\* ------------------------------------------------------------ config.py
\* Texts are sequences of characters where the code looks inside them.
LowerCase == ("T" :> "t") @@ ("Y" :> "y") @@ ("E" :> "e") @@ ("S" :> "s")
\* str.lower()
lower(str) ==
    [i \in 1..Len(str) |-> IF str[i] \in DOMAIN LowerCase THEN LowerCase[str[i]] ELSE str[i]]

\* input_str.lower() in ['true', '1', 't', 'y', 'yes']
config_str_to_bool(input_str) ==
    lower(input_str) \in {<<"t", "r", "u", "e">>, <<"1">>, <<"t">>, <<"y">>, <<"y", "e", "s">>}

DecimalDigits == <<"0", "1", "2", "3", "4", "5", "6", "7", "8", "9">>
IsDigit(c) == \E d \in DOMAIN DecimalDigits : DecimalDigits[d] = c
DigitValue(c) == (CHOOSE d \in DOMAIN DecimalDigits : DecimalDigits[d] = c) - 1
RECURSIVE lstrip(_)
lstrip(str) == IF str # <<>> /\ str[1] = " " THEN lstrip(Tail(str)) ELSE str
RECURSIVE rstrip(_)
rstrip(str) ==
    IF str # <<>> /\ str[Len(str)] = " " THEN rstrip(SubSeq(str, 1, Len(str) - 1)) ELSE str
RECURSIVE digits_value(_, _)
digits_value(str, acc) ==
    IF str = <<>> THEN acc ELSE digits_value(Tail(str), 10 * acc + DigitValue(str[1]))
\* int(str): surrounding blanks are dropped, then an optional sign and at least
\* one decimal digit; anything else raises ValueError (ok = FALSE)
int(str) ==
    LET t == rstrip(lstrip(str))
        signed == t # <<>> /\ t[1] \in {"+", "-"}
        body == IF signed THEN Tail(t) ELSE t
    IN  IF body = <<>> \/ \E i \in DOMAIN body : ~IsDigit(body[i])
          THEN [ok |-> FALSE, value |-> 0]
          ELSE [ok |-> TRUE,
                value |-> IF signed /\ t[1] = "-" THEN 0 - digits_value(body, 0)
                          ELSE digits_value(body, 0)]

vcf_to_zarr_compressor_types == {"Blosc"}
vcf_to_zarr_blosc_algorithm_types == {"zstd", "blosclz", "lz4", "lz4hc", "zlib", "snappy"}
vcf_to_zarr_blosc_shuffle_types == {NOSHUFFLE, SHUFFLE, BITSHUFFLE, AUTOSHUFFLE}

\* one statement of VCFtoZarrConfigurationRepresentation.__init__
ConfigStep(from, to, self) ==
    /\ pc = from /\ Goto(to)
    /\ locals' = [locals EXCEPT !.self = self]
    /\ UNCHANGED <<now, zarr_dir_benchmark, events>>
    /\ UNCHANGED_self /\ UNCHANGED_profiler /\ UNCHANGED_env

\* if runtime_config is not None: if hasattr(runtime_config, "vcf_to_zarr")
ConfigInit ==
    ConfigStep("config_init",
               IF locals.runtime_config.given /\ locals.runtime_config.section
                 THEN "config_enabled" ELSE "config_loaded",
               locals.self)

ConfigEnabled ==
    LET o == locals.runtime_config.vcf_to_zarr.enabled
    IN  ConfigStep("config_enabled", "config_compressor",
                   IF o.present
                     THEN [locals.self EXCEPT !.enabled = config_str_to_bool(o.text)]
                     ELSE locals.self)

\* a variant that takes the compressor as it is given
ConfigCompressor_unvalidated ==
    LET o == locals.runtime_config.vcf_to_zarr.compressor
    IN  ConfigStep("config_compressor", "config_algorithm",
                   IF o.present
                     THEN [locals.self EXCEPT !.compressor = o.text]
                     ELSE locals.self)

ConfigCompressor ==
    LET o == locals.runtime_config.vcf_to_zarr.compressor
    IN  ConfigStep("config_compressor", "config_algorithm",
                   IF o.present /\ o.text \in vcf_to_zarr_compressor_types
                     THEN [locals.self EXCEPT !.compressor = o.text]
                     ELSE locals.self)

ConfigAlgorithm ==
    LET o == locals.runtime_config.vcf_to_zarr.blosc_compression_algorithm
    IN  ConfigStep("config_algorithm", "config_level",
                   IF o.present /\ o.text \in vcf_to_zarr_blosc_algorithm_types
                     THEN [locals.self EXCEPT !.blosc_compression_algorithm = o.text]
                     ELSE locals.self)

ConfigLevel ==
    LET o == locals.runtime_config.vcf_to_zarr.blosc_compression_level
        compression_level_temp == int(o.text)
    IN  ConfigStep("config_level", "config_shuffle",
                   IF /\ o.present /\ compression_level_temp.ok
                      /\ compression_level_temp.value >= 0 /\ compression_level_temp.value <= 9
                     THEN [locals.self EXCEPT
                              !.blosc_compression_level = compression_level_temp.value]
                     ELSE locals.self)

ConfigShuffle ==
    LET o == locals.runtime_config.vcf_to_zarr.blosc_shuffle_mode
        blosc_shuffle_mode_temp == int(o.text)
    IN  ConfigStep("config_shuffle", "config_loaded",
                   IF /\ o.present /\ blosc_shuffle_mode_temp.ok
                      /\ blosc_shuffle_mode_temp.value \in vcf_to_zarr_blosc_shuffle_types
                     THEN [locals.self EXCEPT !.blosc_shuffle_mode = blosc_shuffle_mode_temp.value]
                     ELSE locals.self)

\* the configuration is handed to convert_to_zarr as its conversion_config,
\* with or without an alt_number and a profiler
ConfigConvert ==
    /\ pc = "config_loaded"
    /\ \E a \in {None, ConfiguredAltNumber}, b \in BOOLEAN :
          /\ conf' = [conf EXCEPT !.vcf_to_zarr_config =
                         [present |-> TRUE, alt_number |-> a,
                          compressor |-> locals.self.compressor]]
          /\ locals' = [NoLocals EXCEPT !.caller = "client", !.benchmark_profiler = b,
                                        !.output_zarr_dir = "zarr_dir_setup"]
    /\ Event("VCFtoZarrConfigurationRepresentation")
    /\ Goto("convert_to_zarr")
    /\ UNCHANGED <<now, zarr_dir_benchmark>>
    /\ UNCHANGED <<vcf_isfile, allele_counts, zarr_dir_setup, psv_base, isfile_base, client>>
    /\ UNCHANGED_self /\ UNCHANGED_profiler

NextConfig ==
    \/ ConfigInit \/ ConfigEnabled \/ ConfigCompressor \/ ConfigAlgorithm
    \/ ConfigLevel \/ ConfigShuffle \/ ConfigConvert

\* what a configuration file may hold for the options of [vcf_to_zarr]
EnabledTexts == {<<"T", "r", "u", "e">>, <<"y">>, <<"n", "o">>}
CompressorTexts == {"Blosc", "blosc", "Gzip"}
AlgorithmTexts == {"lz4", "snappy", "gzip"}
LevelTexts ==
    {<<"0">>, <<"9">>, <<"1", "0">>, <<"-", "1">>, <<" ", "7", " ">>, <<"+", "3">>,
     <<"5", ".", "0">>, <<"x">>, <<>>}
ShuffleTexts == {<<"0">>, <<"2">>, <<"-", "1">>, <<"3">>, <<"b", "i", "t">>}
Options(texts, none) == {NoOption(none)} \cup {Option(t) : t \in texts}
RuntimeConfigs ==
    {NoRuntimeConfig, [NoRuntimeConfig EXCEPT !.given = TRUE]}
    \cup { [given |-> TRUE, section |-> TRUE,
            vcf_to_zarr |-> [enabled |-> o[1], compressor |-> o[2],
                             blosc_compression_algorithm |-> o[3],
                             blosc_compression_level |-> o[4],
                             blosc_shuffle_mode |-> o[5]]] :
            o \in Options(EnabledTexts, <<>>) \X Options(CompressorTexts, "")
                     \X Options(AlgorithmTexts, "") \X Options(LevelTexts, <<>>)
                     \X Options(ShuffleTexts, <<>>) }

\* VCFtoZarrConfigurationRepresentation(runtime_config) for any content of the
\* configuration file; the object starts with the class attributes.
InitConfig ==
    /\ InitProfiler
    /\ psv_isfile = FALSE /\ psv_lines = <<>> /\ psv_base = <<>> /\ isfile_base = FALSE
    /\ now = 0
    /\ conf = NoConf
    /\ vcf_isfile = TRUE
    /\ zarr_dir_setup = EmptyDir /\ zarr_dir_benchmark = NoDir
    /\ allele_counts = AlleleCountsMixed
    /\ pc = "config_init" /\ run_idx = 0 /\ exit_status = None
    /\ benchmark_zarr_dir = "" /\ benchmark_zarr_file = <<>>
    /\ \E rc \in RuntimeConfigs :
          locals = [NoLocals EXCEPT !.caller = "client", !.runtime_config = rc]
    /\ events = <<>>
    /\ client = InitClient

\* run_benchmark, or a configuration built and handed to convert_to_zarr.
SpecConfig == (Init \/ InitConfig) /\ [][Next \/ NextConfig]_vars

\* get_genotype_array(callset, kind) or get_genotype_array_concat(callsets,
\* kind) called on its own, with one of the three kinds or another one.
InitGenotype ==
    /\ InitProfiler /\ InitPsv
    /\ now = 0
    /\ \E g \in GenotypeArrayTypes \cup {"other"} :
          conf = [NoConf EXCEPT !.genotype_array_type = g]
    /\ vcf_isfile = TRUE
    /\ zarr_dir_setup = DirWith(DatasetZarr, SetupStore) /\ zarr_dir_benchmark = NoDir
    /\ allele_counts \in Datasets
    /\ \/ /\ pc = "get_genotype_array"
          /\ locals = [NoLocals EXCEPT !.caller = "client", !.callset = SetupStore,
                                       !.callsets = 1]
       \/ /\ pc = "get_genotype_array_concat"
          /\ \E n \in 0..MaxCallsets :
                locals = [NoLocals EXCEPT !.caller = "client", !.callset = SetupStore,
                                          !.callsets = n]
    /\ run_idx = 0 /\ exit_status = None
    /\ benchmark_zarr_dir = "" /\ benchmark_zarr_file = <<>>
    /\ events = <<>>
    /\ client = InitClient

\* run_benchmark, or a genotype array requested by a client.
SpecData == (Init \/ InitGenotype) /\ [][Next \/ NextGenotype]_vars

\* Either kind of session: the profiler driven by run_benchmark or by a client.
SpecAny == (Init \/ InitProfilerSession) /\ [][Next \/ NextProfiler]_vars

\* ================================================================ claims
\* the rows this session appended to the file
Appended == SubSeq(psv_lines, Len(psv_base) + 1, Len(psv_lines))
IsPrefix(a, b) == Len(a) <= Len(b) /\ SubSeq(b, 1, Len(a)) = a
RunNumbers(rows) == {rows[i].run_number : i \in DOMAIN rows}
Terminated == pc \in {"returned", "exited", "raised"}

\* C1: a session of run_benchmark that returns has appended records carrying
\* exactly the run numbers 1..benchmark_number_runs; in log order the run
\* numbers start at 1 and each is the one before it or that plus one; while the
\* session runs no record carries the number of a run that has not started.
C1_RunNumbers ==
    LET rows == DataRows(Appended)
    IN  /\ \A i \in DOMAIN rows : rows[i].run_number \in 1..run_idx
        /\ rows # <<>> => rows[1].run_number = 1
        /\ \A i \in 1..(Len(rows) - 1) :
              rows[i + 1].run_number \in {rows[i].run_number, rows[i].run_number + 1}
        /\ (pc = "returned" /\ conf.present) =>
              RunNumbers(rows) = 1..conf.benchmark_number_runs

C1_Witness ==
    /\ pc = "returned" /\ conf.benchmark_number_runs = 2
    /\ conf.benchmark_data_input = "vcf" /\ conf.benchmark_pca
    /\ RunNumbers(DataRows(Appended)) = {1, 2}

\* C2: on one profiler, the number of records appended equals the number of
\* begin/end pairs the client completed: an end_benchmark that follows a begin
\* appends exactly one record, any other call appends none, so two begins with
\* no end between them lead to one record.
C2_OneRecordPerPair ==
    /\ Len(DataRows(Appended)) = client.pairs
    /\ Len(DataRows(psv_lines)) - Len(DataRows(client.pre_lines)) =
          (IF client.op = "end_benchmark" /\ client.paired THEN 1 ELSE 0)

C2_Witness ==
    /\ client.op = "end_benchmark" /\ client.paired /\ client.pairs = 2
    /\ client.second_label # NoLabel

\* C3: start_benchmark on a running profiler changes neither the stored label,
\* the start instant, the running flag nor the file, and the record the next
\* end_benchmark emits carries the first label and the time elapsed since the
\* first begin.
C3_SecondStartIgnored ==
    /\ (client.op = "start_benchmark" /\ client.pre_running) =>
          /\ results = client.pre_results
          /\ benchmark_running
          /\ psv_lines = client.pre_lines /\ psv_isfile = client.pre_isfile
    /\ (client.op = "end_benchmark" /\ client.paired) =>
          /\ psv_lines # <<>>
          /\ psv_lines[Len(psv_lines)].kind = "data"
          /\ psv_lines[Len(psv_lines)].operation = client.first_label
          /\ psv_lines[Len(psv_lines)].timestamp = client.first_begin
          /\ psv_lines[Len(psv_lines)].exec_time = client.elapsed

C3_Witness ==
    /\ client.op = "end_benchmark" /\ client.paired
    /\ client.second_label \notin {NoLabel, client.first_label}
    /\ client.second_begin > client.first_begin
    /\ client.elapsed > client.second_begin - client.first_begin

\* C4 (sessions of either kind): a write puts the header row in front of its data row exactly when the
\* file did not exist before that write; so a file the session created starts
\* with the one header it holds, a file that existed gets no header, and every
\* write appends exactly one data row.
C4_HeaderOnce ==
    /\ [](/\ isfile_base => HeaderRows(Appended) = <<>>
          /\ (~isfile_base /\ psv_isfile) =>
                /\ psv_lines # <<>> /\ IsHeader(psv_lines[1])
                /\ Len(HeaderRows(psv_lines)) = 1)
    /\ [][psv_lines' # psv_lines =>
            /\ psv_isfile'
            /\ ~IsHeader(psv_lines'[Len(psv_lines')])
            /\ psv_lines' = psv_lines
                              \o (IF psv_isfile THEN <<>> ELSE <<HeaderRow>>)
                              \o <<psv_lines'[Len(psv_lines')]>>]_vars

C4_Witness ==
    /\ ~isfile_base /\ run_idx = 2 /\ pc = "returned"
    /\ IsHeader(psv_lines[1]) /\ Len(psv_lines) > 3

\* C5 (sessions of either kind): the result log is append-only: every step of
\* run_benchmark and every call of a profiler method leaves the rows
\* the file held before it as a prefix of the rows it holds after it.
C5_AppendOnly == [][IsPrefix(psv_lines, psv_lines')]_vars

C5_Witness ==
    /\ run_idx = 2 /\ pc = "load_end"
    /\ psv_base # <<>> /\ Len(Appended) >= 3
    /\ \E i \in DOMAIN events : events[i] = [run |-> 2, ev |-> "wipe"]

\* what run_benchmark did in run r, in order
EventsOf(r) == SelectSeq(events, LAMBDA e : e.run = r)
Did(r, ev) == \E i \in DOMAIN events : events[i] = [run |-> r, ev |-> ev]
DidBefore(r, ev, i) == \E j \in 1..(i - 1) : events[j] = [run |-> r, ev |-> ev]
ConversionEvents == {"convert_to_zarr", "read_vcf", "np_max", "vcf_to_zarr"}
AggregationEvents == {Aggregations[i].call : i \in DOMAIN Aggregations}
PcaEvents == {PcaSteps[i].call : i \in DOMAIN PcaSteps} \cup {"compress(flt)", "gf = gt"}
StageEvents == {"load", "create_genotype_array", "compute()"} \cup AggregationEvents \cup PcaEvents

\* C6: with data input "vcf" every load of a run follows that run's conversion
\* into the working directory and opens the store that conversion wrote; with
\* "zarr" no conversion step is ever taken and the store opened is the one in
\* the setup directory.
C6_ModeRouting ==
    /\ conf.benchmark_data_input = "vcf" =>
          /\ \A i \in DOMAIN events : events[i].ev = "load" =>
                /\ DidBefore(events[i].run, "convert_to_zarr", i)
                /\ DidBefore(events[i].run, "vcf_to_zarr", i)
          /\ pc \in {"zarr_path", "load_begin", "load", "load_end"} =>
                /\ Did(run_idx, "convert_to_zarr")
                /\ benchmark_zarr_dir = "zarr_dir_benchmark"
          /\ (pc = "zarr_path" /\ Did(run_idx, "vcf_to_zarr")) =>
                isdir(zarr_dir_benchmark, benchmark_zarr_file)
          /\ pc = "load_end" =>
                /\ locals.callset = zarr_dir_benchmark.store
                /\ locals.callset.writer = run_idx
    /\ conf.benchmark_data_input = "zarr" =>
          /\ \A i \in DOMAIN events : events[i].ev \notin ConversionEvents
          /\ pc \in {"zarr_path", "load_begin", "load", "load_end"} =>
                benchmark_zarr_dir = "zarr_dir_setup"
          /\ pc = "load_end" =>
                /\ locals.callset = zarr_dir_setup.store
                /\ zarr_dir_benchmark = NoDir
    /\ \A i \in DOMAIN events :
          events[i].ev = "load" => conf.benchmark_data_input \in {"vcf", "zarr"}

C6_Witness ==
    /\ conf.benchmark_data_input = "vcf" /\ run_idx = 2 /\ pc = "load_end"
    /\ locals.callset.writer = 2
    /\ Did(1, "load")

\* C7 as stated: whenever the data input is neither "vcf" nor "zarr", a session
\* that has ended has ended by exit(1).
C7_Original ==
    (conf.present /\ conf.benchmark_data_input \notin {"vcf", "zarr"} /\ Terminated) =>
        (pc = "exited" /\ exit_status = 1)

\* C7 (amended): when the data input is neither "vcf" nor "zarr" and at least one
\* run is configured, the session never gets past the mode selection of run 1:
\* nothing is converted, loaded, aggregated or analysed, no record is appended,
\* no second run starts, every step short of the end has a next step, and the
\* only end is exit(1); with zero runs configured run_benchmark returns normally.
C7_InvalidInputFatal ==
    (conf.present /\ conf.benchmark_data_input \notin {"vcf", "zarr"}) =>
        /\ pc \in {"run_benchmark", "for", "remove_directory_tree", "set_run_number",
                   "data_input", "exited", "returned"}
        /\ run_idx <= 1
        /\ psv_lines = psv_base /\ ~benchmark_running
        /\ \A i \in DOMAIN events : events[i].ev \in {"wipe", "set_run_number"}
        /\ pc = "exited" => exit_status = 1 /\ run_idx = 1
        /\ pc = "returned" <=> (conf.benchmark_number_runs = 0 /\ exit_status = 0)
        /\ ~Terminated => ENABLED Next

C7_Witness ==
    /\ conf.present /\ conf.benchmark_data_input = "csv"
    /\ conf.benchmark_number_runs = 2
    /\ pc = "exited" /\ run_idx = 1

\* C8: when the store path resolved by the mode selection is not a directory,
\* or the source file of "vcf" mode is missing, the next step is exit(1); the
\* run that ended so has loaded nothing, created no genotype array and run no
\* aggregation or PCA step, converted at most once, and nothing follows the exit.
C8_MissingIsFatal ==
    /\ [](pc = "exited" /\ conf.benchmark_data_input \in {"vcf", "zarr"} =>
            /\ exit_status = 1
            /\ \A i \in DOMAIN events :
                  events[i].run = run_idx => events[i].ev \notin StageEvents
            /\ Len(SelectSeq(EventsOf(run_idx), LAMBDA e : e.ev = "convert_to_zarr")) <= 1
            /\ Len(SelectSeq(EventsOf(run_idx), LAMBDA e : e.ev = "wipe")) = 1)
    /\ [][ /\ (pc = "zarr_path"
                 /\ ~isdir(ZarrDir, benchmark_zarr_file)) => (pc' = "exited" /\ exit_status' = 1)
           /\ (pc = "_benchmark_convert_to_zarr" /\ ~vcf_isfile) =>
                 (pc' = "exited" /\ exit_status' = 1)
           /\ pc = "exited" => UNCHANGED vars ]_vars

C8_Witness ==
    /\ pc = "exited" /\ conf.benchmark_data_input = "zarr"
    /\ ~isdir(zarr_dir_setup, conf.benchmark_dataset)
    /\ conf.benchmark_number_runs = 2 /\ run_idx = 1

\* C9: in every run the working directory is wiped and then the run number
\* set before anything else of the run happens, with the profiler idle and no
\* record of that run written; from the wipe on, the working directory holds
\* no store but the one this run's conversion wrote.
C9_WipeFirst ==
    /\ \A r \in 1..run_idx :
          LET evs == EventsOf(r)
          IN  /\ Len(evs) >= 1 => evs[1].ev = "wipe"
              /\ Len(evs) >= 2 => evs[2].ev = "set_run_number"
              /\ \A i \in 3..Len(evs) : evs[i].ev \notin {"wipe", "set_run_number"}
    /\ pc \in {"remove_directory_tree", "set_run_number"} =>
          /\ ~benchmark_running
          /\ EventsOf(run_idx) = (IF pc = "set_run_number"
                                    THEN <<[run |-> run_idx, ev |-> "wipe"]>> ELSE <<>>)
          /\ run_idx \notin RunNumbers(DataRows(Appended))
    /\ pc \notin {"run_benchmark", "for", "remove_directory_tree", "returned"} =>
          zarr_dir_benchmark.store.writer \in {None, run_idx}
    /\ \A r \in RunNumbers(DataRows(Appended)) : Did(r, "wipe") /\ Did(r, "set_run_number")

C9_Witness ==
    /\ run_idx = 2 /\ pc = "convert_to_zarr"
    /\ Did(1, "vcf_to_zarr")
    /\ zarr_dir_benchmark = NoDir

\* a run is complete when the loop is back at its head or has returned
Completed(r) == r \in 1..run_idx /\ (r < run_idx \/ pc \in {"for", "returned"})
RanAggregations(r) == \E ev \in AggregationEvents : Did(r, ev)
RanPca(r) == \E ev \in PcaEvents : Did(r, ev)

\* C10: a run takes an aggregation step only if aggregations are enabled and a
\* PCA step only if PCA is enabled; a run that completes has run the
\* aggregations if and only if they are enabled and, independently, the PCA if
\* and only if it is enabled, the same in every run of the session.
C10_StagesAsConfigured ==
    \A r \in 1..run_idx :
        /\ RanAggregations(r) => conf.benchmark_aggregations
        /\ RanPca(r) => conf.benchmark_pca
        /\ Completed(r) =>
              /\ RanAggregations(r) <=> conf.benchmark_aggregations
              /\ RanPca(r) <=> conf.benchmark_pca
              /\ \A e \in AggregationEvents : conf.benchmark_aggregations => Did(r, e)
              /\ \A q \in 1..run_idx : Completed(q) =>
                    /\ RanAggregations(q) <=> RanAggregations(r)
                    /\ RanPca(q) <=> RanPca(r)

C10_Witness ==
    /\ pc = "returned" /\ run_idx = 2
    /\ ~conf.benchmark_aggregations /\ conf.benchmark_pca
    /\ RanPca(1) /\ RanPca(2) /\ ~RanAggregations(1) /\ ~RanAggregations(2)

\* the operation labels of the records of run r, in log order
RowsOf(r) == SelectSeq(DataRows(Appended), LAMBDA row : row.run_number = r)
LabelsOf(r) == [i \in 1..Len(RowsOf(r)) |-> RowsOf(r)[i].operation]

\* the labels of the conversion records: none in "zarr" mode
ConversionLabels(alt_number) ==
    (IF alt_number = None
       THEN <<"Read VCF file into memory for alt number", "Determine maximum alt number">>
       ELSE <<>>) \o <<"Convert VCF to Zarr">>
AggregationLabels ==
    << "Allele Count (All Samples)",
       "Genotype Count: Heterozygous per Variant", "Genotype Count: Homozygous per Variant",
       "Genotype Count: Heterozygous per Sample", "Genotype Count: Homozygous per Sample" >>
PcaLabels ==
    LET steps == SelectSeq(PcaSteps, LAMBDA st : st.timed /\ (st.ld => ld_prune_applies))
    IN  [i \in 1..Len(steps) |-> steps[i].name]
RunLabels ==
    (IF conf.benchmark_data_input = "vcf" /\ conf.vcf_to_zarr_config.present
       THEN ConversionLabels(conf.vcf_to_zarr_config.alt_number) ELSE <<>>)
    \o <<"Load Zarr Dataset", "Create Genotype Array">>
    \o (IF conf.benchmark_aggregations THEN AggregationLabels ELSE <<>>)
    \o (IF conf.benchmark_pca THEN PcaLabels ELSE <<>>)

\* C11: runs execute one after another and every run does its steps in one
\* order: the wipe first, then the records in the order conversion (in "vcf"
\* mode), "Load Zarr Dataset", "Create Genotype Array", aggregations (if
\* enabled), PCA (if enabled).  The records of a run in progress are a prefix of
\* that sequence of labels and those of a completed run are all of it, the same
\* for every run; what run i did and recorded precedes, in the log and in
\* time, what run i+1 did and recorded.
C11_FixedOrder ==
    LET rows == DataRows(Appended)
    IN  /\ \A i \in 1..(Len(events) - 1) : events[i].run <= events[i + 1].run
        /\ \A i \in 1..(Len(rows) - 1) :
              /\ rows[i].run_number <= rows[i + 1].run_number
              /\ rows[i].timestamp + rows[i].exec_time <= rows[i + 1].timestamp
        /\ \A r \in 1..run_idx :
              /\ IsPrefix(LabelsOf(r), RunLabels)
              /\ Completed(r) => LabelsOf(r) = RunLabels
              /\ EventsOf(r) # <<>> => EventsOf(r)[1].ev = "wipe"
              /\ RowsOf(r) # <<>> => Did(r, "wipe")
        /\ pc = "remove_directory_tree" =>
              /\ ~benchmark_running
              /\ \A r \in 1..(run_idx - 1) : LabelsOf(r) = RunLabels
              /\ LabelsOf(run_idx) = <<>>

C11_Witness ==
    /\ pc = "returned" /\ run_idx = 2
    /\ conf.benchmark_data_input = "vcf" /\ conf.vcf_to_zarr_config.alt_number = None
    /\ conf.benchmark_aggregations /\ conf.benchmark_pca /\ ld_prune_applies
    /\ LabelsOf(1) = RunLabels /\ LabelsOf(2) = RunLabels
    /\ Len(RunLabels) = 3 + 2 + 5 + 9

\* a session whose configuration is valid and whose files are where it says
ValidSession ==
    /\ conf.present
    /\ conf.benchmark_data_input \in {"vcf", "zarr"}
    /\ conf.benchmark_data_input = "vcf" =>
          /\ vcf_isfile
          /\ conf.vcf_to_zarr_config.present
          /\ conf.vcf_to_zarr_config.compressor = "Blosc"
    /\ conf.benchmark_data_input = "zarr" => isdir(zarr_dir_setup, conf.benchmark_dataset)
    /\ conf.genotype_array_type \in GenotypeArrayTypes
WipesOf(r) == Len(SelectSeq(EventsOf(r), LAMBDA e : e.ev = "wipe"))

\* C12: a valid session of run_benchmark eventually returns, and when it has
\* returned it has made exactly benchmark_number_runs iterations, each with one
\* wipe at its start and a load after it, and nothing has been wiped since the
\* last run: in "vcf" mode the working directory still holds the store the last
\* run converted.
C12_ReturnsAfterAllRuns ==
    /\ (ValidSession /\ pc = "run_benchmark") ~>
          (pc = "returned" /\ run_idx = conf.benchmark_number_runs)
    /\ [](ValidSession =>
            /\ pc \notin {"exited", "raised"}
            /\ run_idx <= conf.benchmark_number_runs
            /\ pc = "returned" =>
                  /\ exit_status = 0
                  /\ run_idx = conf.benchmark_number_runs
                  /\ \A r \in 1..run_idx : WipesOf(r) = 1 /\ Did(r, "load")
                  /\ \A i \in DOMAIN events : events[i].run \in 1..run_idx
                  /\ events # <<>> => events[Len(events)].ev # "wipe"
                  /\ (conf.benchmark_data_input = "vcf" /\ run_idx > 0) =>
                        /\ isdir(zarr_dir_benchmark, benchmark_zarr_file)
                        /\ zarr_dir_benchmark.store.writer = run_idx)

C12_Witness ==
    /\ ValidSession /\ pc = "returned" /\ run_idx = 2
    /\ conf.benchmark_data_input = "vcf"
    /\ zarr_dir_benchmark.store.writer = 2
    /\ WipesOf(1) = 1 /\ WipesOf(2) = 1

\* convert_to_zarr's destination directory, and the positions inside the function
Destination ==
    IF locals.output_zarr_dir = "zarr_dir_benchmark" THEN zarr_dir_benchmark
    ELSE zarr_dir_setup
ConvertPcs ==
    {"convert_to_zarr", "scan_begin", "scan", "scan_end", "max_begin", "max", "max_end",
     "compressor", "vcf_to_zarr_begin", "vcf_to_zarr", "vcf_to_zarr_end", "convert_return"}
\* the largest entry of the source's numalt column
LargestNumalt ==
    CHOOSE x \in {VcfNumalt[i] : i \in DOMAIN VcfNumalt} :
        \A j \in DOMAIN VcfNumalt : VcfNumalt[j] <= x
SmallColumns == UNION {[1..n -> 0..3] : n \in 1..3}

\* C13: convert_to_zarr scans the source and takes the maximum exactly when the
\* configured alt_number is unset; then both the scan and the maximum are done,
\* in that order, before the conversion pass starts, and the conversion pass
\* lays the store out for the largest numalt of the source (3 for the column
\* 1, 3, 2); when alt_number is set there is no scan and the store is laid out
\* for the configured value.  At the np.max statement: np.max yields, for every
\* column of up to three entries, an entry no other entry exceeds.
C13_PreScanIffUnset ==
    LET cv == conf.vcf_to_zarr_config
        expected == IF cv.alt_number = None THEN LargestNumalt ELSE cv.alt_number
    IN  /\ \A i \in DOMAIN events :
              /\ events[i].ev \in {"read_vcf", "np_max"} => cv.alt_number = None
              /\ events[i].ev = "np_max" => DidBefore(events[i].run, "read_vcf", i)
              /\ (events[i].ev = "vcf_to_zarr" /\ cv.alt_number = None) =>
                    DidBefore(events[i].run, "np_max", i)
        /\ pc \in {"compressor", "vcf_to_zarr_begin", "vcf_to_zarr", "vcf_to_zarr_end"} =>
              /\ cv.alt_number = None <=> Did(run_idx, "read_vcf")
              /\ cv.alt_number = None <=> Did(run_idx, "np_max")
              /\ locals.alt_number = expected
        /\ pc = "vcf_to_zarr_end" =>
              /\ Destination.store.alt_number = expected
              /\ Destination.store.writer = run_idx
        /\ pc = "max" =>
              /\ LargestNumalt = 3
              /\ \A a \in SmallColumns :
                    /\ \E i \in DOMAIN a : a[i] = np_max(a)
                    /\ \A i \in DOMAIN a : a[i] <= np_max(a)

C13_Witness ==
    /\ pc = "vcf_to_zarr_end" /\ conf.vcf_to_zarr_config.alt_number = None
    /\ Did(run_idx, "read_vcf") /\ Did(run_idx, "np_max")
    /\ Destination.store.alt_number = 3

\* the configured compressor is outside the supported set
BadCompressor ==
    conf.vcf_to_zarr_config.present /\ conf.vcf_to_zarr_config.compressor \notin {"Blosc"}

\* C14: with a compressor outside the supported set, whatever alt_number is and
\* with or without a profiler, convert_to_zarr never reaches its conversion
\* pass: the step at the compressor test raises, no step of the call changes
\* the destination directory or the store in it, and a session that ends after
\* calling convert_to_zarr ends by that exception.
C14_BadCompressorRaises ==
    /\ [](BadCompressor =>
            /\ pc \notin {"vcf_to_zarr_begin", "vcf_to_zarr", "vcf_to_zarr_end",
                           "convert_return"}
            /\ \A i \in DOMAIN events : events[i].ev # "vcf_to_zarr"
            /\ (Terminated /\ \E i \in DOMAIN events : events[i].ev = "convert_to_zarr") =>
                  pc = "raised"
            /\ (locals.caller = "run_benchmark" /\ pc = "raised") =>
                  ~isdir(zarr_dir_benchmark, <<>>))
    /\ [][ /\ (BadCompressor /\ pc \in ConvertPcs) =>
                 UNCHANGED <<zarr_dir_setup, zarr_dir_benchmark>>
           /\ (BadCompressor /\ pc = "compressor") => pc' = "raised"
           /\ pc = "raised" => UNCHANGED vars ]_vars

C14_Witness ==
    /\ BadCompressor /\ pc = "raised"
    /\ ~locals.benchmark_profiler /\ conf.vcf_to_zarr_config.alt_number = None
    /\ Did(run_idx, "np_max")
    /\ zarr_dir_setup = DirWith(DatasetZarr, SetupStore)

\* the run number the records of the current call carry
CallRun == IF locals.caller = "run_benchmark" THEN run_idx ELSE None

\* C15: when convert_to_zarr is about to return after converting, the call has
\* appended, with a profiler, one record per stage it executed and no other:
\* the pre-scan and the maximum (only when alt_number is unset) and the
\* conversion, in this order, under three different labels, each record timing
\* its own stage alone; without a profiler it has appended nothing and never
\* started the profiler, and the store has been written all the same.
C15_ConversionRecords ==
    LET cv == conf.vcf_to_zarr_config
    IN  /\ (pc = "convert_return" /\ cv.present) =>
              /\ Did(run_idx, "vcf_to_zarr")
              /\ isdir(Destination, truncate_vcf(conf.benchmark_dataset))
              /\ Destination.store.writer = run_idx
              /\ LabelsOf(CallRun) =
                    (IF locals.benchmark_profiler THEN ConversionLabels(cv.alt_number)
                     ELSE <<>>)
              /\ \A i \in DOMAIN RowsOf(CallRun) : RowsOf(CallRun)[i].exec_time = 1
              /\ \A i \in 1..(Len(RowsOf(CallRun)) - 1) :
                    RowsOf(CallRun)[i].timestamp + 1 = RowsOf(CallRun)[i + 1].timestamp
        /\ (pc = "convert_return" /\ ~cv.present) =>
              LabelsOf(CallRun) = <<>> /\ ~Did(run_idx, "vcf_to_zarr")
        /\ (pc \in ConvertPcs /\ ~locals.benchmark_profiler) =>
              /\ Appended = <<>> /\ psv_isfile = isfile_base
              /\ ~benchmark_running /\ results = EmptyResults
        /\ Cardinality({ConversionLabels(None)[i] : i \in 1..3}) = 3

C15_Witness ==
    /\ pc = "convert_return" /\ locals.benchmark_profiler
    /\ conf.vcf_to_zarr_config.alt_number = None
    /\ Len(RowsOf(CallRun)) = 3 /\ Did(run_idx, "vcf_to_zarr")

\* the aggregation records and calls of run r, in order
AggregationRowsOf(r) ==
    SelectSeq(RowsOf(r), LAMBDA row : \E i \in 1..5 : row.operation = AggregationLabels[i])
AggregationCalls ==
    <<"count_alleles()", "count_het(axis=1)", "count_hom(axis=1)", "count_het(axis=0)",
      "count_hom(axis=0)">>
AggregationCallsOf(r) ==
    LET evs == SelectSeq(EventsOf(r), LAMBDA e : \E i \in 1..5 : e.ev = AggregationCalls[i])
    IN  [i \in 1..Len(evs) |-> evs[i].ev]
\* run r is past its aggregation suite
PastAggregations(r) ==
    Completed(r) \/ (r = run_idx /\ pc \in {"if_pca", "pca_step", "pca", "pca_end"})

\* C16: with a genotype array of any of the three kinds, a run that is past
\* its aggregation suite has appended exactly five aggregation records: allele
\* count, heterozygous per variant, homozygous per variant, heterozygous per
\* sample, homozygous per sample, in this order, each for the call of the same
\* position.  Every call is made while the profiler runs under that
\* operation's label, every begin finds the profiler idle, and the timed
\* intervals of consecutive records do not overlap.
C16_FiveAggregations ==
    /\ \A r \in 1..run_idx :
          LET rows == AggregationRowsOf(r)
          IN  /\ IsPrefix([i \in 1..Len(rows) |-> rows[i].operation], AggregationLabels)
              /\ IsPrefix(AggregationCallsOf(r), AggregationCalls)
              /\ Len(rows) <= Len(AggregationCallsOf(r))
              /\ \A i \in 1..Len(rows) : rows[i].exec_time = 1
              /\ \A i \in 1..(Len(rows) - 1) :
                    rows[i].timestamp + rows[i].exec_time <= rows[i + 1].timestamp
              /\ (PastAggregations(r) /\ conf.benchmark_aggregations) =>
                    /\ conf.genotype_array_type \in GenotypeArrayTypes
                    /\ Len(rows) = 5
                    /\ AggregationCallsOf(r) = AggregationCalls
    /\ pc = "aggregation_begin" =>
          ~benchmark_running /\ Len(AggregationRowsOf(run_idx)) = locals.step - 1
    /\ pc \in {"aggregation", "aggregation_end"} =>
          /\ benchmark_running
          /\ results.operation_name = AggregationLabels[locals.step]
          /\ Len(AggregationRowsOf(run_idx)) = locals.step - 1

C16_Witness ==
    /\ pc = "if_pca" /\ run_idx = 2 /\ conf.genotype_array_type = "chunked"
    /\ Len(AggregationRowsOf(1)) = 5 /\ Len(AggregationRowsOf(2)) = 5

ComputesOf(r) == Len(SelectSeq(EventsOf(r), LAMBDA e : e.ev = "compute()"))

\* C17: with a Dask array every aggregation call is followed at once by
\* compute(), inside the operation's begin/end pair, so that a run has never
\* more aggregation records than forced results; with an in-memory or a
\* chunked array compute() is never called.
C17_DaskForced ==
    /\ conf.genotype_array_type = "dask" =>
          /\ \A i \in DOMAIN events :
                (\E k \in 1..5 : events[i].ev = AggregationCalls[k]) =>
                    /\ i < Len(events)
                    /\ events[i + 1] = [run |-> events[i].run, ev |-> "compute()"]
          /\ \A r \in 1..run_idx :
                /\ Len(AggregationRowsOf(r)) <= ComputesOf(r)
                /\ ComputesOf(r) = Len(AggregationCallsOf(r))
          /\ pc = "aggregation" =>
                benchmark_running /\ ComputesOf(run_idx) = locals.step - 1
          /\ pc = "aggregation_end" =>
                /\ benchmark_running
                /\ events[Len(events)].ev = "compute()"
                /\ ComputesOf(run_idx) = locals.step
                /\ Len(AggregationRowsOf(run_idx)) = locals.step - 1
    /\ conf.genotype_array_type # "dask" =>
          \A i \in DOMAIN events : events[i].ev # "compute()"

C17_Witness ==
    /\ conf.genotype_array_type = "dask" /\ pc = "aggregation_end" /\ locals.step = 5
    /\ ComputesOf(run_idx) = 5 /\ Len(AggregationRowsOf(run_idx)) = 4

\* positions inside _benchmark_pca; the statements numbered as in PcaSteps
InPca == pc \in {"pca_step", "pca", "pca_end"}
StepOf(call) == CHOOSE i \in DOMAIN PcaSteps : PcaSteps[i].call = call
\* the statement `call` of the current invocation has been executed
PcaDone(call) ==
    /\ InPca
    /\ \/ locals.step > StepOf(call)
       \/ locals.step = StepOf(call) /\ pc = "pca_end"
PcaFinished == pc = "pca_step" /\ locals.step = Len(PcaSteps) + 1
RecordsLabelled(label) ==
    Len(SelectSeq(RowsOf(CallRun), LAMBDA row : row.operation = label))

\* C18: when the filter mask has no true entry, the filter statement keeps the
\* whole genotype array: the working set handed to the dosage transform is
\* every variant of the array, the statement's begin/end pair completes with
\* exactly one record, nothing raises, and the invocation goes on to its end
\* through the transform, the subsample, the materialisation and both analyses.
C18_EmptyFilterSkipped ==
    LET zero == Len(locals.flt) = Len(allele_counts) /\ count_nonzero(locals.flt) = 0
    IN  /\ (PcaDone("gf") /\ zero) =>
              /\ locals.gf = Variants
              /\ Did(run_idx, "gf = gt") /\ ~Did(run_idx, "compress(flt)")
              /\ pc = "pca_step" =>
                    RecordsLabelled("PCA: Remove singletons and multiallelic SNPs") = 1
        /\ (PcaDone("to_n_alt()") /\ zero) =>
              locals.gn = [v \in 1..Len(allele_counts) |-> v - 1]
        /\ (InPca /\ zero) => (pc # "raised" /\ ENABLED Next)
        /\ (PcaFinished /\ zero) =>
              /\ LabelsOf(CallRun)[Len(LabelsOf(CallRun))] =
                    "PCA: Run randomized PCA analysis (scaler: none)"
              /\ Did(run_idx, "to_n_alt()") /\ Did(run_idx, "random.choice; sort; take")
              /\ Did(run_idx, "gnu[:]") /\ Did(run_idx, "allel.pca")
              /\ Did(run_idx, "allel.randomized_pca")
        /\ (pc = "raised" /\ locals.gt # NoLabel) => locals.flt = <<>>

C18_Witness ==
    /\ PcaFinished /\ count_nonzero(locals.flt) = 0 /\ Len(locals.flt) = 3
    /\ locals.gf = <<0, 1, 2>>
    /\ RecordsLabelled("PCA: Remove singletons and multiallelic SNPs") = 1

\* the properties of one outcome c of the subsample of a matrix of V variants
SubsampleOk(c, gn, size) ==
    LET V == Len(gn)
        n == Len(c.vidx)
    IN  /\ n = (IF V < size THEN V ELSE size)
        /\ \A i \in 1..n : c.vidx[i] \in 0..(V - 1)
        /\ \A i \in 1..(n - 1) : c.vidx[i] < c.vidx[i + 1]
        /\ Len(c.gnr) = n
        /\ \A i \in 1..n : c.gnr[i] = gn[c.vidx[i] + 1]
        /\ size >= V => c.gnr = gn

\* C19: the subsample draws min(variant count, subset size) indices, all
\* different, each a row of the matrix, and slices by them in ascending order,
\* so that with a subset size of at least the variant count the slice is the
\* whole matrix in its order.  Checked on every invocation after the
\* subsample, and, at the subsample statement, for every matrix of 0 to 4
\* variants with every subset size from 1 on.
C19_Subsample ==
    /\ PcaDone("random.choice; sort; take") =>
          SubsampleOk([vidx |-> locals.vidx, gnr |-> locals.gnr], locals.gn,
                      conf.pca_subset_size)
    /\ (pc = "pca_step" /\ locals.step = StepOf("random.choice; sort; take")) =>
          \A V \in 0..4, size \in 1..(MaxSubsetSize + 1) :
              LET gn == [v \in 1..V |-> 10 + v]
              IN  /\ subsample(gn, size) # {}
                  /\ \A c \in subsample(gn, size) : SubsampleOk(c, gn, size)

C19_Witness ==
    /\ PcaDone("random.choice; sort; take")
    /\ Len(locals.gn) = 3 /\ conf.pca_subset_size = 2
    /\ locals.vidx = <<0, 2>> /\ locals.gnr = <<0, 2>>

\* C20: an invocation of _benchmark_pca prunes if and only if pca_ld_enabled
\* is set and the array is not a Dask array.  Otherwise pruning is skipped
\* without an exception: no "PCA: Apply LD pruning" record is appended, the
\* matrix that is materialised and analysed is the subsample as drawn, and the
\* invocation ends with the materialisation and the two analyses recorded.
C20_LdPruning ==
    LET wanted == conf.pca_ld_enabled /\ conf.genotype_array_type # "dask"
        late == {"gnu[:]", "allel.pca", "allel.randomized_pca"}
    IN  /\ \A i \in DOMAIN events : events[i].ev = "_pca_ld_prune" => wanted
        /\ \A i \in DOMAIN DataRows(Appended) :
              DataRows(Appended)[i].operation = "PCA: Apply LD pruning" => wanted
        /\ (InPca /\ \E ev \in late : Did(run_idx, ev)) =>
              /\ Did(run_idx, "_pca_ld_prune") <=> wanted
              /\ RecordsLabelled("PCA: Apply LD pruning") = (IF wanted THEN 1 ELSE 0)
              /\ ~wanted => (locals.gnu = locals.gnr /\ locals.ld_rounds = <<>>)
        /\ (InPca /\ ~wanted /\ locals.gt # NoLabel) => (pc # "raised" /\ ENABLED Next)
        /\ (PcaFinished /\ ~wanted) =>
              /\ \A ev \in late : Did(run_idx, ev)
              /\ RecordsLabelled("PCA: Move data set to memory") = 1
              /\ SubSeq(LabelsOf(CallRun), Len(LabelsOf(CallRun)) - 2, Len(LabelsOf(CallRun)))
                    = << "PCA: Move data set to memory",
                         "PCA: Run conventional PCA analysis (scaler: "
                            \o scaler_name(conf.pca_data_scaler) \o ")",
                         "PCA: Run randomized PCA analysis (scaler: "
                            \o scaler_name(conf.pca_data_scaler) \o ")" >>

C20_Witness ==
    /\ PcaFinished /\ conf.pca_ld_enabled /\ conf.genotype_array_type = "dask"
    /\ ~Did(run_idx, "_pca_ld_prune")
    /\ Len(locals.gnr) = 2 /\ locals.gnu = locals.gnr

\* the matrix a pruning round started from
RoundInput(i) == IF i = 1 THEN locals.gnr ELSE locals.ld_rounds[i - 1].gn
IsSubsequence(a, b) == \E m \in [1..Len(b) -> BOOLEAN] : compress(b, m) = a

\* C21: when LD pruning has been performed it has run exactly
\* pca_ld_pruning_number_iterations rounds and its result is the matrix after
\* the last round (with zero rounds, the subsample itself).  Each round's mask
\* has one entry per variant of the matrix the round started from, the matrix
\* after the round is that matrix restricted to the true entries, in order, so
\* it has as many variants as the mask has true entries; the variant counts
\* never grow from round to round and never exceed the subsample's.
C21_LdRounds ==
    PcaDone("_pca_ld_prune") /\ Did(run_idx, "_pca_ld_prune") =>
        LET rounds == locals.ld_rounds
        IN  /\ Len(rounds) = conf.pca_ld_pruning_number_iterations
            /\ locals.gnu = (IF rounds = <<>> THEN locals.gnr ELSE rounds[Len(rounds)].gn)
            /\ \A i \in DOMAIN rounds :
                  /\ Len(rounds[i].loc_unlinked) = Len(RoundInput(i))
                  /\ Len(rounds[i].gn) = count_nonzero(rounds[i].loc_unlinked)
                  /\ \A k \in DOMAIN rounds[i].gn :
                        \E v \in DOMAIN RoundInput(i) :
                            rounds[i].loc_unlinked[v] /\ RoundInput(i)[v] = rounds[i].gn[k]
                  /\ IsSubsequence(rounds[i].gn, RoundInput(i))
                  /\ Len(rounds[i].gn) <= Len(RoundInput(i))
                  /\ Len(rounds[i].gn) <= Len(locals.gnr)

C21_Witness ==
    /\ PcaDone("_pca_ld_prune") /\ Len(locals.ld_rounds) = 2
    /\ Len(locals.gnr) = 3
    /\ Len(locals.ld_rounds[1].gn) = 2 /\ Len(locals.ld_rounds[2].gn) = 1
    /\ locals.gnu = locals.ld_rounds[2].gn

\* the records of the current invocation of _benchmark_pca
PcaRowsOf(r) ==
    SelectSeq(RowsOf(r), LAMBDA row : \E i \in DOMAIN PcaSteps : row.operation = PcaSteps[i].name)
\* the nine steps of the pipeline as statements of PcaSteps: the filter is the
\* statement "gf" (the mask "flt" is computed for it), the decompositions are two
PipelineSteps == SelectSeq(PcaSteps, LAMBDA st : st.call # "flt")
PerformedSteps ==
    SelectSeq(PipelineSteps, LAMBDA st : st.ld => Did(run_idx, "_pca_ld_prune"))

\* C22: every step of the PCA pipeline that an invocation performs (allele
\* count, multiallelic count, singleton count, filter, dosage transform,
\* subsample, LD pruning when performed, materialisation, the two
\* decompositions) is executed between a start_benchmark and its end_benchmark
\* and adds one record: while a step's statement has just run the recorder is
\* running, and a finished invocation has one record per performed step.
C22_EveryStepTimed ==
    /\ \A i \in DOMAIN PipelineSteps :
          (InPca /\ locals.gt # NoLabel /\ events # <<>>
             /\ locals.step = StepOf(PipelineSteps[i].call) + 1 /\ pc = "pca_step")
          => Len(PcaRowsOf(CallRun)) >= Len(SelectSeq(PerformedSteps,
                   LAMBDA st : StepOf(st.call) <= StepOf(PipelineSteps[i].call)))
    /\ PcaFinished => Len(PcaRowsOf(CallRun)) = Len(PerformedSteps)

CountOf(r, ev) == Len(SelectSeq(EventsOf(r), LAMBDA e : e.ev = ev))
ConfiguredScaler == IF conf.pca_data_scaler = NoLabel THEN "none" ELSE conf.pca_data_scaler
ConventionalLabel == "PCA: Run conventional PCA analysis (scaler: " \o ConfiguredScaler \o ")"
RandomizedLabel == "PCA: Run randomized PCA analysis (scaler: " \o ConfiguredScaler \o ")"
\* the matrix handed to the materialisation: the pruned one, or the subsample
PcaInput ==
    IF locals.ld_rounds = <<>> THEN locals.gnr ELSE locals.ld_rounds[Len(locals.ld_rounds)].gn

\* C23: in an invocation of _benchmark_pca the materialisation ("PCA: Move
\* data set to memory") has ended and is recorded before either decomposition
\* begins; the conventional decomposition ends and is recorded before the
\* randomized one begins; both take the materialised matrix gnu, which no
\* later statement changes; a finished invocation has run each decomposition
\* once and holds one record for each, the conventional one first, under two
\* different labels that carry the configured scaler's name, "none" without one.
C23_TwoDecompositions ==
    /\ ConventionalLabel # RandomizedLabel
    /\ \A i \in DOMAIN events :
          /\ events[i].ev = "allel.pca" => DidBefore(events[i].run, "gnu[:]", i)
          /\ events[i].ev = "allel.randomized_pca" => DidBefore(events[i].run, "allel.pca", i)
    /\ (InPca /\ locals.gt # NoLabel /\ locals.step >= StepOf("allel.pca")) =>
          /\ PcaDone("gnu[:]")
          /\ RecordsLabelled("PCA: Move data set to memory") = 1
          /\ locals.gnu = PcaInput
    /\ (InPca /\ locals.gt # NoLabel /\ locals.step >= StepOf("allel.randomized_pca")) =>
          /\ CountOf(run_idx, "allel.pca") = 1
          /\ RecordsLabelled(ConventionalLabel) = 1
    /\ (InPca /\ locals.step < StepOf("allel.pca")) =>
          /\ CountOf(run_idx, "allel.pca") = 0
          /\ RecordsLabelled(ConventionalLabel) = 0
    /\ (InPca /\ ~PcaDone("allel.randomized_pca")) =>
          /\ CountOf(run_idx, "allel.randomized_pca") = 0
          /\ RecordsLabelled(RandomizedLabel) = 0
    /\ PcaFinished =>
          /\ CountOf(run_idx, "allel.pca") = 1 /\ CountOf(run_idx, "allel.randomized_pca") = 1
          /\ locals.gnu = PcaInput
          /\ LET labels == LabelsOf(CallRun)
             IN  /\ Len(labels) >= 3
                 /\ SubSeq(labels, Len(labels) - 2, Len(labels))
                       = <<"PCA: Move data set to memory", ConventionalLabel, RandomizedLabel>>
    /\ \A r \in 1..run_idx : Completed(r) /\ RanPca(r) =>
          /\ CountOf(r, "allel.pca") = 1 /\ CountOf(r, "allel.randomized_pca") = 1
          /\ Len(SelectSeq(RowsOf(r), LAMBDA row : row.operation = ConventionalLabel)) = 1
          /\ Len(SelectSeq(RowsOf(r), LAMBDA row : row.operation = RandomizedLabel)) = 1

C23_Witness ==
    /\ PcaFinished /\ conf.pca_data_scaler = NoLabel
    /\ LabelsOf(CallRun)[Len(LabelsOf(CallRun))] = "PCA: Run randomized PCA analysis (scaler: none)"
    /\ LabelsOf(CallRun)[Len(LabelsOf(CallRun)) - 1]
          = "PCA: Run conventional PCA analysis (scaler: none)"
    /\ Len(locals.gnu) = 2

\* a client's request for a genotype array has returned to it
GenotypeReturned ==
    /\ pc = "returned" /\ locals.caller = "client"
    /\ \E ev \in {"get_genotype_array", "concatenate"} : Did(run_idx, ev)

\* C24: with a genotype_array_type outside the three kinds no entry point
\* lets its caller go on: a call of get_genotype_array or of
\* get_genotype_array_concat (with one or several call-sets) does not return,
\* it raises; and a run of run_benchmark that has requested the array stops
\* there, it does not go on to end "Create Genotype Array" or to any later
\* statement with the result.
C24_InvalidKindFatal ==
    conf.genotype_array_type \notin GenotypeArrayTypes =>
        /\ ~GenotypeReturned
        /\ locals.gt \notin GenotypeArrayTypes
        /\ (locals.caller = "run_benchmark" /\ Did(run_idx, "create_genotype_array")) =>
              pc \in {"raised", "exited"}

\* C25: with a Dask array the allele counts of the first PCA step are forced
\* inside the step's begin/end pair: the statement that counts the alleles is
\* followed at once by compute(), while the recorder is still running, so
\* that "PCA: Count alleles" is recorded only after the counts were computed.
C25_DaskCountsForced ==
    conf.genotype_array_type = "dask" =>
        /\ \A i \in DOMAIN events :
              events[i].ev = "count_alleles()[:]" =>
                  /\ i < Len(events)
                  /\ events[i + 1] = [run |-> events[i].run, ev |-> "compute()"]
        /\ (InPca /\ RecordsLabelled("PCA: Count alleles") > 0) =>
              \E i \in DOMAIN events : events[i] = [run |-> run_idx, ev |-> "compute()"]

\* rows of allele counts for three alleles
SmallRows == [1..3 -> 0..MaxAlleleCount]
\* the highest allele observed at the variant is allele 1, and the reference
\* allele and allele 1 are both observed more than once
Biallelic(row) == row[2] > 0 /\ \A k \in 3..Len(row) : row[k] = 0
KeptByFilter(row) == Biallelic(row) /\ row[1] > 1 /\ row[2] > 1

\* C26: the filter mask has one entry per variant, true exactly when the
\* variant's highest observed allele is allele 1 and its first two allele
\* counts both exceed 1 (for the dataset at hand and for every row of small
\* counts).  When the mask has a true entry the working set after the filter
\* is the variants with a true entry, in order, as many as there are true
\* entries; with or without one, the working set never has more variants than
\* the genotype array.
C26_FilterMask ==
    /\ (pc = "pca_step" /\ locals.step = StepOf("flt")) =>
          \A row \in SmallRows : filter_mask(<<row>>)[1] <=> KeptByFilter(row)
    /\ PcaDone("flt") =>
          /\ Len(locals.flt) = Len(allele_counts)
          /\ \A v \in DOMAIN locals.flt : locals.flt[v] <=> KeptByFilter(allele_counts[v])
    /\ PcaDone("gf") =>
          /\ Len(locals.gf) <= Len(Variants)
          /\ count_nonzero(locals.flt) > 0 =>
                /\ Len(locals.gf) = count_nonzero(locals.flt)
                /\ \A v \in DOMAIN Variants :
                      locals.flt[v] <=> \E k \in DOMAIN locals.gf : locals.gf[k] = Variants[v]
                /\ \A j, k \in DOMAIN locals.gf : j < k => locals.gf[j] < locals.gf[k]

C26_Witness ==
    /\ PcaDone("gf") /\ pc = "pca_step"
    /\ locals.flt = <<TRUE, FALSE, TRUE>> /\ locals.gf = <<0, 2>>
    /\ RecordsLabelled("PCA: Remove singletons and multiallelic SNPs") = 1

\* a call of convert_to_zarr has ended by the exception of the compressor test
ConversionFailed == BadCompressor /\ pc = "raised" /\ Did(run_idx, "convert_to_zarr")

\* C27: a call of convert_to_zarr that fails on an unsupported compressor has
\* appended no record to the result log, whatever alt_number is and whether
\* or not a profiler was passed: the log holds no record of the call when the
\* exception leaves it.
C27_NoRecordOnFailure ==
    ConversionFailed =>
        /\ RowsOf(CallRun) = <<>>
        /\ \A i \in DOMAIN DataRows(Appended) :
              \A k \in DOMAIN ConversionLabels(None) :
                  DataRows(Appended)[i].operation # ConversionLabels(None)[k]

\* the client's last call was end_benchmark on a running profiler
EndedRunning == client.op = "end_benchmark" /\ client.pre_running
\* the client's last call was start_benchmark on an idle profiler
StartedIdle == client.op = "start_benchmark" /\ ~client.pre_running

\* C28 as stated: after end_benchmark on a running profiler the profiler is
\* not running and holds no operation label, start instant or elapsed time.
C28_Original ==
    EndedRunning =>
        /\ ~benchmark_running
        /\ get_benchmark_results.operation_name = NoLabel
        /\ get_benchmark_results.start_time = None
        /\ get_benchmark_results.exec_time = None

\* C28, amended: after end_benchmark on a running profiler the profiler is not
\* running, so that the next start_benchmark begins a fresh operation (it
\* takes the new label and the instant of the call), but the profiler still
\* holds the finished operation's label, start instant and elapsed time, the
\* values of the record just appended: the label and the start instant until
\* the next start_benchmark replaces them, the elapsed time until the next
\* end_benchmark does.
C28_EndKeepsResults ==
    /\ EndedRunning =>
          /\ ~benchmark_running
          /\ get_benchmark_results.operation_name = client.pre_results.operation_name
          /\ get_benchmark_results.operation_name = client.first_label
          /\ get_benchmark_results.start_time = client.first_begin
          /\ get_benchmark_results.exec_time = client.elapsed
          /\ get_benchmark_results.run_number = client.pre_results.run_number
          /\ get_benchmark_results.operation_name # NoLabel
          /\ get_benchmark_results.start_time # None
          /\ get_benchmark_results.exec_time # None
          /\ psv_lines # <<>> /\ psv_lines[Len(psv_lines)] = to_dict(get_benchmark_results)
    /\ StartedIdle =>
          /\ benchmark_running
          /\ get_benchmark_results.operation_name = client.arg
          /\ get_benchmark_results.start_time = client.first_begin
          /\ get_benchmark_results.exec_time = client.pre_results.exec_time
          /\ psv_lines = client.pre_lines

C28_Witness ==
    /\ EndedRunning /\ client.pairs = 2
    /\ get_benchmark_results.exec_time = 1 /\ get_benchmark_results.start_time = 1
    /\ get_benchmark_results.operation_name = client.first_label

\* positions inside VCFtoZarrConfigurationRepresentation.__init__ and after it
ConfigPcs ==
    {"config_init", "config_enabled", "config_compressor", "config_algorithm",
     "config_level", "config_shuffle", "config_loaded"}
\* the integers the texts of the configuration file denote; the other texts
\* denote none
TextValue ==
    (<<"0">> :> 0) @@ (<<"9">> :> 9) @@ (<<"1", "0">> :> 10) @@ (<<"-", "1">> :> 0 - 1)
    @@ (<<" ", "7", " ">> :> 7) @@ (<<"+", "3">> :> 3) @@ (<<"2">> :> 2) @@ (<<"3">> :> 3)
\* the value an option is given, if it is given one of `supported`
Given(o, supported) ==
    o.present /\ o.text \in DOMAIN TextValue /\ TextValue[o.text] \in supported
SupportedConfig(c) ==
    /\ c.compressor \in {"Blosc"}
    /\ c.blosc_compression_algorithm \in {"zstd", "blosclz", "lz4", "lz4hc", "zlib", "snappy"}
    /\ c.blosc_compression_level \in 0..9
    /\ c.blosc_shuffle_mode \in {0 - 1, 0, 1, 2}
    /\ c.enabled \in BOOLEAN

\* C29: a conversion configuration built from a configuration file holds
\* supported values only, at every point of its construction: compressor
\* "Blosc", an algorithm of the six, a level in 0..9, a shuffle mode of the
\* four.  Once built, each setting is the file's value if the file gives a
\* supported one, and the default otherwise (absent, out of the set, or not
\* an integer).  A call of convert_to_zarr with such a configuration never
\* ends by the exception of the compressor test.
C29_LoadedConfigSupported ==
    /\ pc \in ConfigPcs => SupportedConfig(locals.self)
    /\ pc = "config_loaded" =>
          LET rc == locals.runtime_config
              o == rc.vcf_to_zarr
              read == rc.given /\ rc.section
              c == locals.self
          IN  /\ c.compressor = "Blosc"
              /\ c.blosc_compression_algorithm =
                    (IF read /\ o.blosc_compression_algorithm.present
                          /\ o.blosc_compression_algorithm.text \in {"lz4", "snappy"}
                       THEN o.blosc_compression_algorithm.text ELSE "zstd")
              /\ c.blosc_compression_level =
                    (IF read /\ Given(o.blosc_compression_level, 0..9)
                       THEN TextValue[o.blosc_compression_level.text] ELSE 1)
              /\ c.blosc_shuffle_mode =
                    (IF read /\ Given(o.blosc_shuffle_mode, {0 - 1, 0, 1, 2})
                       THEN TextValue[o.blosc_shuffle_mode.text] ELSE 0 - 1)
    /\ Did(run_idx, "VCFtoZarrConfigurationRepresentation") =>
          /\ ~BadCompressor
          /\ pc # "raised"
          /\ pc = "returned" => Did(run_idx, "vcf_to_zarr")

C29_Witness ==
    /\ pc = "config_loaded"
    /\ locals.runtime_config.vcf_to_zarr.compressor = Option("Gzip")
    /\ locals.runtime_config.vcf_to_zarr.blosc_compression_level = Option(<<"1", "0">>)
    /\ locals.runtime_config.vcf_to_zarr.blosc_shuffle_mode = Option(<<"b", "i", "t">>)
    /\ locals.runtime_config.vcf_to_zarr.blosc_compression_algorithm = Option("lz4")
    /\ locals.self = [VCFtoZarrDefaults EXCEPT !.blosc_compression_algorithm = "lz4"]

\* positions between a start_benchmark and its end_benchmark, with the label
\* of the operation that start_benchmark was given
TimedLabel ==
    CASE pc \in {"scan", "scan_end"} -> "Read VCF file into memory for alt number"
      [] pc \in {"max", "max_end"} -> "Determine maximum alt number"
      [] pc \in {"vcf_to_zarr", "vcf_to_zarr_end"} -> "Convert VCF to Zarr"
      [] pc \in {"load", "load_end"} -> "Load Zarr Dataset"
      [] pc \in {"genotype", "genotype_end"} -> "Create Genotype Array"
      [] pc \in {"aggregation", "aggregation_end"} -> Aggregations[locals.step].name
      [] pc \in {"pca", "pca_end"} -> PcaSteps[locals.step].name
      [] OTHER -> NoLabel
\* positions of a run before its set_run_number, and outside any run
BeforeRunNumber == {"run_benchmark", "for", "remove_directory_tree", "set_run_number", "returned"}

\* C30: while run_benchmark executes and no statement has raised or exited,
\* the profiler is running exactly between a start_benchmark and its
\* end_benchmark: it is idle wherever start_benchmark or set_run_number is
\* called and at every run boundary, and inside a pair it holds the label and
\* a start instant of that pair's own start_benchmark and the current run's
\* number, so no start_benchmark was ignored and no two operations overlap;
\* the records of a run are as many as its completed pairs.
C30_OneInFlight ==
    (locals.caller = "run_benchmark" /\ pc \notin {"raised", "exited"}) =>
        /\ benchmark_running <=> TimedLabel # NoLabel
        /\ TimedLabel # NoLabel =>
              /\ results.operation_name = TimedLabel
              /\ results.start_time \in 0..now
              /\ results.run_number = run_idx
              /\ IsPrefix(LabelsOf(run_idx), RunLabels)
              /\ Len(LabelsOf(run_idx)) < Len(RunLabels)
              /\ RunLabels[Len(LabelsOf(run_idx)) + 1] = TimedLabel
        /\ pc \in {"for", "remove_directory_tree", "set_run_number", "returned"} =>
              ~benchmark_running
        /\ (pc \notin BeforeRunNumber /\ conf.present) => results.run_number = run_idx
        /\ (pc = "for" /\ run_idx > 0) => LabelsOf(run_idx) = RunLabels

C30_Witness ==
    /\ pc = "for" /\ run_idx = 2 /\ ~benchmark_running
    /\ conf.benchmark_data_input = "vcf" /\ conf.benchmark_aggregations /\ conf.benchmark_pca
    /\ Len(LabelsOf(2)) = Len(RunLabels) /\ Len(RunLabels) > 12

\* the client's last call was end_benchmark on an idle profiler
EndedIdle == client.op = "end_benchmark" /\ ~client.pre_running

\* C31: end_benchmark on a profiler that is not running changes nothing: the
\* log has the lines it had and exists only if it existed, and the profiler's
\* flag and results are what they were.  So the log never holds more records
\* than begin/end pairs were completed: after start_benchmark, end_benchmark,
\* end_benchmark it holds one record.
C31_EndWhenIdle ==
    /\ EndedIdle =>
          /\ psv_lines = client.pre_lines
          /\ psv_isfile = client.pre_isfile
          /\ get_benchmark_results = client.pre_results
          /\ ~benchmark_running
          /\ ~client.paired
    /\ (EndedIdle /\ ~isfile_base /\ client.pairs = 0) => (~psv_isfile /\ psv_lines = <<>>)
    /\ (EndedIdle /\ client.calls = 3 /\ client.pairs = 1) => Len(DataRows(Appended)) = 1
    /\ Len(DataRows(Appended)) = client.pairs

C31_Witness ==
    /\ EndedIdle /\ client.calls = 3 /\ client.pairs = 1
    /\ Len(DataRows(Appended)) = 1
    /\ get_benchmark_results.operation_name = client.first_label

\* the client's last call was set_run_number
SetWhileRunning == client.op = "set_run_number" /\ client.pre_running
SetWhileIdle == client.op = "set_run_number" /\ ~client.pre_running

\* C32: set_run_number on a running profiler changes nothing, the stored run
\* number included; as no step changes the run number while the profiler is
\* running, and end_benchmark records the stored one, the record of an
\* operation carries the run number stored when the operation began.
\* set_run_number on an idle profiler stores the number it is given, changes
\* no other field and appends nothing.
C32_RunNumberHeld ==
    /\ [](/\ SetWhileRunning =>
              /\ get_benchmark_results = client.pre_results
              /\ benchmark_running
              /\ psv_lines = client.pre_lines /\ psv_isfile = client.pre_isfile
          /\ SetWhileIdle =>
              /\ get_benchmark_results = [client.pre_results EXCEPT !.run_number = client.run_arg]
              /\ ~benchmark_running
              /\ psv_lines = client.pre_lines /\ psv_isfile = client.pre_isfile)
    /\ [][ /\ benchmark_running => results'.run_number = results.run_number
           /\ (~benchmark_running /\ benchmark_running') =>
                 results'.run_number = results.run_number
           /\ (benchmark_running /\ ~benchmark_running') =>
                 /\ Len(psv_lines') > Len(psv_lines)
                 /\ psv_lines'[Len(psv_lines')].kind = "data"
                 /\ psv_lines'[Len(psv_lines')].run_number = results.run_number
                 /\ psv_lines'[Len(psv_lines')].operation = results.operation_name ]_vars

C32_Witness ==
    /\ SetWhileRunning /\ benchmark_running
    /\ client.run_arg = 2 /\ get_benchmark_results.run_number = 1
    /\ get_benchmark_results.operation_name = client.first_label

====
